---- MODULE Spec2Model ----
(***************************************************************************)
(* A model of the TeraBox bots of this repository.                         *)
(*                                                                         *)
(*   src/app/bot.py  handle_terabox: rate limit, metadata, size gate,      *)
(*                   semaphore-guarded streamed download, upload, cleanup  *)
(*   src/app/limits.py  RateLimiter.check                                  *)
(*   src/bot.py      cb_mirror: streamed download, upload, cleanup         *)
(*   src/bot.py      resolve_terabox: page fetch, share/list, probe        *)
(*                                                                         *)
(* Every handler invocation is one asyncio task.  A task runs without      *)
(* interruption between two awaits, so each action below is the code       *)
(* between one suspension point and the next.  Time is counted in          *)
(* milliseconds.                                                           *)
(***************************************************************************)
EXTENDS Integers, Sequences, FiniteSets, TLC

(***************************************************************************)
(* Bounds of the model.                                                    *)
(***************************************************************************)
\* handler tasks (link messages, or mirror callbacks) that arrive
NumHandlers == 4
\* distinct chat users sending the messages
NumUsers == 1
\* the clock is read within seconds 0..MaxSec, at 0..MaxMs ms past a second
MaxSec == 1
MaxMs == 0
\* bytes a download source delivers at most
MaxBytes == 2
\* errno values of a share/list body range over -MaxErrno..MaxErrno
MaxErrno == 1
\* numeric sizes of a listed file range over 0..MaxSize
MaxSize == 1
\* size ceilings range over 0..MaxCeiling, beside the configured ones
MaxCeiling == 3
\* calls of RateLimiter.check in a run of the limiter alone
MaxCalls == 5
\* chunks one source delivers at most (empty ones included)
MaxChunks == 3
\* bytes one source delivers at most in the detailed transfer
MaxStreamBytes == 3
\* updates the bot of src/bot.py handles at most
MaxUpdates == 4

(***************************************************************************)
(* Configuration read from the environment by src/app/bot.py.  Any         *)
(* positive value may be configured; the model runs small ones.            *)
(***************************************************************************)
\* src/app/bot.py:30  MAX_CONCURRENT = int(os.getenv("MAX_CONCURRENT", "3"))
MAX_CONCURRENT == 2
\* src/app/bot.py:29  USER_RATE_LIMIT = int(os.getenv("USER_RATE_LIMIT", "3"))
USER_RATE_LIMIT == 3

(***************************************************************************)
(* Program constants.                                                      *)
(***************************************************************************)
MAX_FILE_MB == 1900
MiB == 1048576
window_sec == 3600
MsPerSec == 1000
MIRROR_MAX_BYTES == 2000000000
\* the throttles of the progress edits, in half seconds: 2.0 s and 1.5 s
AppThrottle == 4
MirrorThrottle == 3
RATE_LIMIT_S == 10

Handlers == 1..NumHandlers
Users == 1..NumUsers
Times == {s * MsPerSec + m : s \in 0..MaxSec, m \in 0..MaxMs}
Names == {"a.bin"}
NoPath == <<>>
NoEvent == [h |-> 0, st |-> "none", why |-> "none", path |-> NoPath, link |-> FALSE]

VARIABLES
    prog,          \* which bot runs: "app" (src/app/bot.py) or "bot" (src/bot.py)
    pc,            \* per task: the await it is suspended at, or how it ended
    tmp,           \* per task: its temp path, NoPath before it is chosen
    written,       \* per task: bytes written to its temp file so far
    how,           \* per task: the branch it took (ghost, for the properties)
    files,         \* the temp paths that exist on disk
    now,           \* the last value time.time() returned, in ms
    dl_semaphore,  \* asyncio.Semaphore: value, waiter futures, futures done
    events,        \* RateLimiter.events: user -> accepted timestamps
    acq,           \* ghost: completed dl_semaphore.acquire() calls
    rel,           \* ghost: dl_semaphore.release() calls
    last           \* ghost: the task the last step ended, how ("done": it
                   \* returned, "raised": an exception left the handler,
                   \* "cancelled"), on which branch, and the temp path it had
                   \* chosen; NoEvent when the last step ended no task

tvars == <<prog, pc, tmp, written, how, files, now, dl_semaphore, events, acq, rel, last>>

\* one call of resolve_terabox (src/bot.py)
VARIABLES
    rpc,           \* the await the call is suspended at; "returned", "raised"
    kw_ok,         \* whether the installed httpx takes head(allow_redirects=)
    probe_answer,  \* how the server of the dlink answers a HEAD sent to it
    rurl,          \* the url argument after line 251
    reqs,          \* the network requests sent so far, in order
    page,          \* how the page fetch ended, and default_thumb
    listing,       \* the parsed share/list body (kept for the properties)
    file0,         \* the locals kept across the probe: dlink, fname, fsize, thumb
    result,        \* the ResolveResult returned
    exc            \* the exception that left resolve_terabox, "none" if none

rvars == <<rpc, kw_ok, probe_answer, rurl, reqs, page, listing, file0, result, exc>>

\* one decision of a size gate (src/app/bot.py:193-212, src/bot.py:555, 618)
VARIABLES
    gate,          \* the handler whose gate decides
    ceiling,       \* the configured ceiling: MB in handle_terabox, bytes in src/bot.py
    fsize,         \* the size the metadata gives: a number, or None when missing
    verdict        \* "none" before the decision, then "proceed" or "reject"

gvars == <<gate, ceiling, fsize, verdict>>

\* a RateLimiter of its own, called over a long stretch of time
VARIABLES
    lim_now,       \* time.time() at the last call, in ms
    lim_events,    \* RateLimiter.events
    lim_log        \* the calls of check so far: user, time, ok, wait

lvars == <<lim_now, lim_events, lim_log>>

\* one transfer in detail: the bytes of stream_download (src/app/bot.py) or of
\* the loop of cb_mirror (src/bot.py), its progress edits and its upload
VARIABLES
    s_prog,        \* "app" or "bot"
    s_pc,          \* the await the transfer is suspended at, "ended" at the end
    s_status,      \* status code of the response to the GET, 0 before it
    s_sent,        \* the bytes the source has delivered so far, in order
    s_chunks,      \* the chunks the source has delivered so far
    s_total,       \* the size the metadata declared, 0 when unknown
    s_file,        \* the temp file: whether it exists, and its content
    s_created,     \* the temp file has been created at some time
    s_downloaded,  \* downloaded (stream_download), done (cb_mirror)
    s_now,         \* time.time() at the last chunk, in half seconds
    s_last_update, \* last_update (stream_download), last_edit (cb_mirror)
    s_reported,    \* the byte count of the last progress edit shown, -1: none
    s_edit_failed, \* a progress edit has raised
    s_exhausted,   \* the source has delivered its last chunk
    s_aborted,     \* the source aborted, or an I/O error hit the stream
    s_why,         \* the except branch taken, "none" if none
    s_error,       \* the error message sent to the user, "none" if none
    s_uploaded,    \* the upload made: answered or not, from the file or not, bytes
    s_edit_times   \* the times at which the progress edits were sent, in order

\* the domain checks of the two bots applied to one string
VARIABLES
    d_url,         \* the string given to the checks
    d_app,         \* what is_allowed_domain (src/app/bot.py) answered
    d_bot          \* what is_terabox_url (src/bot.py) answered

dvars == <<d_url, d_app, d_bot>>

\* the bot of src/bot.py: its SQLite tables and the updates it handles
VARIABLES
    b_now,         \* time.time(), in half seconds
    b_n,           \* the updates handled so far
    b_users,       \* table users: the user ids with a row
    b_settings,    \* table settings: user id -> auto_short, auto_mirror
    b_ratelimit,   \* table ratelimit: user id -> last_ts
    b_menu,        \* the users who were sent a keyboard with the menu buttons
    b_asked,       \* the owner pressed Broadcast and has sent no message since
    b_passed,      \* user id -> time of the last link message let through, -1: none
    b_last         \* the last update: who, what, when, its handler and outcome

bvars == <<b_now, b_n, b_users, b_settings, b_ratelimit, b_menu, b_asked,
           b_passed, b_last>>

svars == <<s_prog, s_pc, s_status, s_sent, s_chunks, s_total, s_file, s_created,
           s_downloaded, s_now, s_last_update, s_reported, s_edit_failed,
           s_exhausted, s_aborted, s_why, s_error, s_uploaded, s_edit_times>>

vars == <<tvars, rvars, gvars, lvars, svars, dvars, bvars>>

\* what the steps of one part of the model leave alone
not_tvars == <<rvars, gvars, lvars, svars, dvars, bvars>>
not_rvars == <<tvars, gvars, lvars, svars, dvars, bvars>>
not_gvars == <<tvars, rvars, lvars, svars, dvars, bvars>>
not_lvars == <<tvars, rvars, gvars, svars, dvars, bvars>>
not_svars == <<tvars, rvars, gvars, lvars, dvars, bvars>>
not_dvars == <<tvars, rvars, gvars, lvars, svars, bvars>>
not_bvars == <<tvars, rvars, gvars, lvars, svars, dvars>>

(***************************************************************************)
(* Strings are sequences of tokens; a token is a run of characters, all in  *)
(* one case.  "TAB" is the tab character.                                  *)
(***************************************************************************)
\* str.lower() on one token
LowerTok(t) ==
    CASE t = "TERA" -> "tera"
      [] t = "BOX" -> "box"
      [] t = "COM" -> "com"
      [] t = "APP" -> "app"
      [] t = "WWW" -> "www"
      [] OTHER -> t

lower(s) == [i \in 1..Len(s) |-> LowerTok(s[i])]

\* Python's `sub in s` on strings
Contains(s, sub) ==
    \E i \in 0..(Len(s) - Len(sub)) : SubSeq(s, i + 1, i + Len(sub)) = sub

ALLOWED_DOMAINS ==
    { <<"tera", "box", ".", "com">>, <<"tera", "box", ".", "app">>,
      <<"1024", "tera", ".", "com">> }

\* is_allowed_domain, on the netloc urlparse found
is_allowed_domain(netloc) ==
    \E d \in ALLOWED_DOMAINS : Contains(lower(netloc), d)

\* netlocs of the URLs TERABOX_URL_RE (IGNORECASE) finds in a message
MatchedNetlocs ==
    { <<"tera", "box", ".", "com">>,
      <<"www", ".", "tera", "box", ".", "app">>,
      <<"TERA", "BOX", ".", "COM">>,
      <<"1024", "tera", ".", "com">> }

\* patterns of is_terabox_url (src/bot.py:198-202); re.search finds them
\* anywhere in the string, in the case they are written in
TERABOX_PATTERNS ==
    { <<"tera", "box", ".", "com">>, <<"tera", "box", "app", ".", "com">>,
      <<"tera", "box", ".", "app">>, <<"nepho", "box", ".", "com">>,
      <<"mirro", "box", ".", "com">>, <<"free", "tera", "box", ".", "com">>,
      <<"tibi", "box", ".", "com">>, <<"tera", "box", "link", ".", "com">> }

is_terabox_url(url) ==
    \E p \in TERABOX_PATTERNS : Contains(url, p)

\* the tokens of s before the first one in stops
Until(s, stops) ==
    LET hits == {i \in 1..Len(s) : s[i] \in stops}
    IN  IF hits = {} THEN s
        ELSE SubSeq(s, 1, (CHOOSE i \in hits : \A j \in hits : i <= j) - 1)

\* urllib.parse.urlsplit up to the netloc: tab, CR and LF are removed from
\* the string, a leading scheme is split off, and the netloc is what follows
\* "//" up to the first "/", "?" or "#"; a bracket without its partner in the
\* netloc raises ValueError
urlparse(url) ==
    LET clean  == SelectSeq(url, LAMBDA t : t # "TAB")
        rest   == IF clean # << >> /\ clean[1] \in {"https:", "http:"}
                  THEN Tail(clean) ELSE clean
        netloc == IF rest # << >> /\ rest[1] = "//"
                  THEN Until(Tail(rest), {"/", "?", "#"}) ELSE << >>
        has(t) == \E i \in 1..Len(netloc) : netloc[i] = t
    IN  [raised |-> (has("[") # has("]")), netloc |-> netloc]

\* is_allowed_domain (src/app/bot.py:63-69) on the whole string
is_allowed_domain_of(url) ==
    LET parsed == urlparse(url)
    IN  IF parsed.raised THEN FALSE ELSE is_allowed_domain(parsed.netloc)

\* the strings the checks are given: an optional scheme and "//", a host,
\* and what follows the host
UrlPrefixes == { << >>, <<"https:", "//">>, <<"//">> }

UrlHosts ==
    { << >>,
      <<"tera", "box", ".", "com">>,
      <<"TERA", "BOX", ".", "COM">>,
      <<"www", ".", "tera", "box", ".", "app">>,
      <<"nepho", "box", ".", "com">>,
      <<"evil", ".", "com">>,
      <<"tera", "TAB", "box", ".", "com">>,
      <<"[", "evil", ".", "com">>,
      <<"tera", "box", ".", "com", "@", "evil", ".", "com">> }

UrlRests ==
    { << >>,
      <<"/", "x">>,
      <<"/", "tera", "box", ".", "com">>,
      <<"?", "u", "=", "tera", "box", ".", "app">>,
      <<"/", "TERA", "BOX", ".", "COM">> }

UrlInputs == { p \o h \o r : p \in UrlPrefixes, h \in UrlHosts, r \in UrlRests }

\* the two checks applied to one string; a result is "none" before the
\* call, then "true", "false" or "raised"
DOff ==
    /\ d_url = << >>
    /\ d_app = "off"
    /\ d_bot = "off"

DInit ==
    /\ d_url \in UrlInputs
    /\ d_app = "none"
    /\ d_bot = "none"

\* src/app/bot.py:63-69: the except turns every exception into False
is_allowed_domain_call ==
    /\ d_app = "none"
    /\ d_app' = IF is_allowed_domain_of(d_url) THEN "true" ELSE "false"
    /\ UNCHANGED <<d_url, d_bot>>
    /\ UNCHANGED not_dvars

\* src/bot.py:197-203
is_terabox_url_call ==
    /\ d_bot = "none"
    /\ d_bot' = IF is_terabox_url(d_url) THEN "true" ELSE "false"
    /\ UNCHANGED <<d_url, d_app>>
    /\ UNCHANGED not_dvars

DNext == is_allowed_domain_call \/ is_terabox_url_call

(***************************************************************************)
(* RateLimiter (src/app/limits.py).  events maps the users seen so far to  *)
(* their kept timestamps.                                                  *)
(***************************************************************************)
window == window_sec * MsPerSec

\* events.setdefault(user_id, []) followed by the pruning comprehension
Pruned(ev, u, t) ==
    LET arr == IF u \in DOMAIN ev THEN ev[u] ELSE <<>>
    IN  SelectSeq(arr, LAMBDA x : t - x < window)

Max0(x) == IF x > 0 THEN x ELSE 0

\* a check that admits one call more than the limit
check_above_limit(ev, u, t) ==
    LET kept == Pruned(ev, u, t)
        put(a) == [v \in DOMAIN ev \cup {u} |-> IF v = u THEN a ELSE ev[v]]
    IN  IF Len(kept) > USER_RATE_LIMIT
        THEN [ok |-> FALSE, wait |-> Max0(window - (t - kept[1])), events |-> put(kept)]
        ELSE [ok |-> TRUE, wait |-> 0, events |-> put(Append(kept, t))]

\* a check that measures the wait from the newest kept call
check_wait_from_newest(ev, u, t) ==
    LET kept == Pruned(ev, u, t)
        put(a) == [v \in DOMAIN ev \cup {u} |-> IF v = u THEN a ELSE ev[v]]
    IN  IF Len(kept) >= USER_RATE_LIMIT
        THEN [ok |-> FALSE, wait |-> Max0(window - (t - kept[Len(kept)])),
              events |-> put(kept)]
        ELSE [ok |-> TRUE, wait |-> 0, events |-> put(Append(kept, t))]

\* a check that never drops an old call
check_without_expiry(ev, u, t) ==
    LET kept == IF u \in DOMAIN ev THEN ev[u] ELSE <<>>
        put(a) == [v \in DOMAIN ev \cup {u} |-> IF v = u THEN a ELSE ev[v]]
    IN  IF Len(kept) >= USER_RATE_LIMIT
        THEN [ok |-> FALSE, wait |-> Max0(window - (t - kept[1])), events |-> put(kept)]
        ELSE [ok |-> TRUE, wait |-> 0, events |-> put(Append(kept, t))]

\* a check that also records the calls it refuses
check_recording_refused(ev, u, t) ==
    LET kept == Pruned(ev, u, t)
        put(a) == [v \in DOMAIN ev \cup {u} |-> IF v = u THEN a ELSE ev[v]]
    IN  IF Len(kept) >= USER_RATE_LIMIT
        THEN [ok |-> FALSE, wait |-> Max0(window - (t - kept[1])),
              events |-> put(Append(kept, t))]
        ELSE [ok |-> TRUE, wait |-> 0, events |-> put(Append(kept, t))]

\* RateLimiter.check at time t: the verdict, the wait and the table after it
check(ev, u, t) ==
    LET kept == Pruned(ev, u, t)
        put(a) == [v \in DOMAIN ev \cup {u} |-> IF v = u THEN a ELSE ev[v]]
    IN  IF Len(kept) >= USER_RATE_LIMIT
        THEN [ok |-> FALSE, wait |-> Max0(window - (t - kept[1])), events |-> put(kept)]
        ELSE [ok |-> TRUE, wait |-> 0, events |-> put(Append(kept, t))]

(***************************************************************************)
(* asyncio.Semaphore as dl_semaphore uses it (CPython 3.11 and later):     *)
(* value, the deque of waiter futures (by task) and the futures that have  *)
(* their result set.  A cancelled waiter leaves the deque in the step that *)
(* cancels it.                                                             *)
(***************************************************************************)
\* a variant that lets a task through once more than acquire() may
locked_off_by_one(s) == s.value < 0 \/ s.waiters # <<>>

locked(s) == s.value = 0 \/ s.waiters # <<>>

Pending(s) == {i \in 1..Len(s.waiters) : s.waiters[i] \notin s.done}

wake_up_next(s) ==
    IF Pending(s) = {}
    THEN s
    ELSE LET i == CHOOSE i \in Pending(s) : \A j \in Pending(s) : i <= j
         IN  [s EXCEPT !.value = @ - 1, !.done = @ \cup {s.waiters[i]}]

\* a variant of release() that frees the slot and wakes nobody
release_no_wake(s) == [s EXCEPT !.value = @ + 1]

release(s) == wake_up_next([s EXCEPT !.value = @ + 1])

Without(q, h) == SelectSeq(q, LAMBDA x : x # h)

\* the waiter's part of acquire() after `await fut` returned its result
resumed(s, h) ==
    LET t == [s EXCEPT !.waiters = Without(@, h), !.done = @ \ {h}]
    IN  IF t.value > 0 THEN wake_up_next(t) ELSE t

\* the waiter's part of acquire() when CancelledError arrives at `await fut`
cancelled_waiter(s, h) ==
    LET t == [s EXCEPT !.waiters = Without(@, h), !.done = @ \ {h}]
    IN  IF h \in s.done THEN wake_up_next([t EXCEPT !.value = @ + 1]) ELSE t

\* a variant of limited_download without the try/finally: the release is
\* reached only when the guarded block ends normally
limited_download_no_finally(g, normal) ==
    IF normal THEN [sem |-> release(g.sem), rel |-> g.rel + 1] ELSE g

\* limited_download: what the `finally` does when the guarded block is left,
\* normally or by an exception; g pairs the semaphore with the release count
limited_download_exit(g, normal) == [sem |-> release(g.sem), rel |-> g.rel + 1]

(***************************************************************************)
(* Initial state: no task has started, the disk holds no temp file.        *)
(***************************************************************************)
TInit ==
    /\ prog \in {"app", "bot"}
    /\ pc = [h \in Handlers |-> "new"]
    /\ tmp = [h \in Handlers |-> NoPath]
    /\ written = [h \in Handlers |-> 0]
    /\ how = [h \in Handlers |-> "none"]
    /\ files = {}
    /\ now = 0
    /\ dl_semaphore = [value |-> MAX_CONCURRENT, waiters |-> <<>>, done |-> {}]
    /\ events = << >>
    /\ acq = 0
    /\ rel = 0
    /\ last = NoEvent

\* messages are numbered in the order their handlers start
Arrives(h) == pc[h] = "new" /\ (IF h = 1 THEN TRUE ELSE pc[h - 1] # "new")

\* time.time(): the clock never runs backwards
Clock(t) == t \in Times /\ t >= now

\* a task ends, having chosen the temp path `path` (NoPath: none): its frame
\* and locals are gone
\* link: the replies of this task have given the user the direct link
EndsWith(h, st, why, path, link) ==
    /\ pc' = [pc EXCEPT ![h] = "ended"]
    /\ how' = [how EXCEPT ![h] = "none"]
    /\ tmp' = [tmp EXCEPT ![h] = NoPath]
    /\ written' = [written EXCEPT ![h] = 0]
    /\ last' = [h |-> h, st |-> st, why |-> why, path |-> path, link |-> link]

EndsAt(h, st, why, path) == EndsWith(h, st, why, path, FALSE)

Ends(h, st, why) == EndsAt(h, st, why, tmp[h])

\* a task suspends at the await named st
Goes(h, st, why) ==
    /\ pc' = [pc EXCEPT ![h] = st]
    /\ how' = [how EXCEPT ![h] = why]
    /\ last' = NoEvent

\* the `finally` of handle_terabox: os.path.exists + os.remove
\* (and of cb_mirror: os.remove under contextlib.suppress)
Removed(h) == files \ {tmp[h]}


(***************************************************************************)
(* handle_terabox (src/app/bot.py), one action per stretch between awaits. *)
(***************************************************************************)
Sizes == {0, 1, MAX_FILE_MB * MiB, MAX_FILE_MB * MiB + 1}

\* what extract_file_info gives: TeraboxDL raised, an {"error": ...} dict, or
\* the metadata (download_link may be missing)
Infos ==
    [kind : {"raise", "error"}, link : {FALSE}, size : {0}, name : {"file"}]
    \cup [kind : {"info"}, link : BOOLEAN, size : Sizes, name : Names]

\* size_mb and size_mb > MAX_FILE_MB, with size_mb = size_bytes / (1024 * 1024)
size_gate_inclusive(size_bytes, max_file_mb) ==
    size_bytes # 0 /\ size_bytes >= max_file_mb * MiB

\* lines 196 and 203 for a ceiling of max_file_mb: dividing by 2^20 is exact
\* in binary floating point, so size_mb > max_file_mb compares the quotient
size_gate(size_bytes, max_file_mb) ==
    size_bytes # 0 /\ size_bytes > max_file_mb * MiB

too_large_mb(size_bytes) == size_gate(size_bytes, MAX_FILE_MB)

\* httpx Response.raise_for_status(): every status outside 2xx raises
is_success(status) == 200 <= status /\ status <= 299

Statuses == {200, 302, 404}

\* lines 173-185: domain check, rate limit, "Fetching file info" reply
handle_terabox_start(h) ==
    /\ prog = "app"
    /\ Arrives(h)
    /\ \E netloc \in MatchedNetlocs, u \in Users, t \in Times, sent \in BOOLEAN :
         IF ~is_allowed_domain(netloc)
         THEN /\ Ends(h, IF sent THEN "done" ELSE "raised", "bad_domain")
              /\ UNCHANGED <<now, events>>
         ELSE /\ Clock(t)
              /\ now' = t
              /\ events' = check(events, u, t).events
              /\ IF ~check(events, u, t).ok
                 THEN Ends(h, IF sent THEN "done" ELSE "raised", "rate_limited")
                 ELSE IF sent
                      THEN Goes(h, "fetching", "none") /\ UNCHANGED <<tmp, written>>
                      ELSE Ends(h, "raised", "reply_failed")
    /\ UNCHANGED not_tvars
    /\ UNCHANGED <<prog, files, dl_semaphore, acq, rel>>

\* lines 188-217: metadata, size gate, temp path, "Starting download" edit
handle_terabox_extract(h) ==
    /\ prog = "app"
    /\ pc[h] = "fetching"
    /\ \E info \in Infos, t \in Times, edited \in BOOLEAN :
         CASE info.kind = "raise" ->
                Ends(h, "raised", "extract_raised") /\ UNCHANGED now
           [] info.kind = "error" ->
                Ends(h, IF edited THEN "done" ELSE "raised", "info_error") /\ UNCHANGED now
           [] info.kind = "info" /\ ~info.link ->
                Ends(h, IF edited THEN "done" ELSE "raised", "no_link") /\ UNCHANGED now
           [] info.kind = "info" /\ info.link /\ too_large_mb(info.size) ->
                \* lines 204-212: the edit carries a button with url=direct_url
                /\ EndsWith(h, IF edited THEN "done" ELSE "raised", "too_large",
                            NoPath, edited)
                /\ UNCHANGED now
           [] OTHER ->
                /\ Clock(t)
                /\ now' = t
                /\ IF edited
                   THEN /\ Goes(h, "starting", "none")
                        /\ tmp' = [tmp EXCEPT ![h] = <<t, info.name>>]
                        /\ UNCHANGED written
                   ELSE EndsAt(h, "raised", "start_edit_failed", <<t, info.name>>)
    /\ UNCHANGED not_tvars
    /\ UNCHANGED <<prog, files, dl_semaphore, events, acq, rel>>

\* lines 219-221, 72-73, 106: enter limited_download; with a free slot go on
\* to open the GET, otherwise queue a future and suspend
handle_terabox_acquire(h) ==
    /\ prog = "app"
    /\ pc[h] = "starting"
    /\ IF ~locked(dl_semaphore)
       THEN /\ dl_semaphore' = [dl_semaphore EXCEPT !.value = @ - 1]
            /\ acq' = acq + 1
            /\ Goes(h, "opening", "none")
       ELSE /\ dl_semaphore' = [dl_semaphore EXCEPT !.waiters = Append(@, h)]
            /\ acq' = acq
            /\ Goes(h, "waiting", "queued")
    /\ UNCHANGED not_tvars
    /\ UNCHANGED <<prog, tmp, written, files, now, events, rel>>

\* acquire() returns to a waiter whose future was given a slot; line 106
handle_terabox_resume(h) ==
    /\ prog = "app"
    /\ pc[h] = "waiting"
    /\ h \in dl_semaphore.done
    /\ dl_semaphore' = resumed(dl_semaphore, h)
    /\ acq' = acq + 1
    /\ Goes(h, "opening", "queued")
    /\ UNCHANGED not_tvars
    /\ UNCHANGED <<prog, tmp, written, files, now, events, rel>>

\* the guarded block of limited_download is left by task h
LeavesBlock(h, normal) ==
    LET g == limited_download_exit([sem |-> dl_semaphore, rel |-> rel], normal)
    IN  dl_semaphore' = g.sem /\ rel' = g.rel

\* lines 106-116: the response arrives; raise_for_status; open(dest_path, "wb")
handle_terabox_respond(h) ==
    /\ prog = "app"
    /\ pc[h] = "opening"
    /\ \E r \in {"status", "connect_error", "open_error"}, status \in Statuses :
         IF r = "status" /\ is_success(status)
         THEN /\ files' = files \cup {tmp[h]}
              /\ written' = [written EXCEPT ![h] = 0]
              /\ Goes(h, "streaming", "none")
              /\ UNCHANGED <<dl_semaphore, rel>>
         ELSE /\ LeavesBlock(h, FALSE)
              /\ Goes(h, "err_edit", IF r = "status" THEN "http_status" ELSE "io_error")
              /\ UNCHANGED <<files, written>>
    /\ UNCHANGED not_tvars
    /\ UNCHANGED <<prog, tmp, now, events, acq>>

\* lines 116-132: one chunk arrives and is written (an empty one is skipped);
\* a failing progress edit is swallowed
handle_terabox_chunk(h) ==
    /\ prog = "app"
    /\ pc[h] = "streaming"
    /\ \E n \in 0..MaxBytes :
         /\ written[h] + n <= MaxBytes
         /\ written' = [written EXCEPT ![h] = @ + n]
    /\ last' = NoEvent
    /\ UNCHANGED not_tvars
    /\ UNCHANGED <<prog, pc, tmp, how, files, now, dl_semaphore, events, acq, rel>>

\* the stream is exhausted: the file and the response are closed, the slot is
\* released (line 77), the upload is started (lines 230-234)
handle_terabox_stream_end(h) ==
    /\ prog = "app"
    /\ pc[h] = "streaming"
    /\ LeavesBlock(h, TRUE)
    /\ Goes(h, "uploading", "none")
    /\ written' = [written EXCEPT ![h] = 0]
    /\ UNCHANGED not_tvars
    /\ UNCHANGED <<prog, tmp, files, now, events, acq>>

\* an I/O error in the middle of the stream: line 77, then lines 242-243
handle_terabox_stream_fail(h) ==
    /\ prog = "app"
    /\ pc[h] = "streaming"
    /\ LeavesBlock(h, FALSE)
    /\ Goes(h, "err_edit", IF written[h] > 0 THEN "io_error_partial" ELSE "io_error")
    /\ written' = [written EXCEPT ![h] = 0]
    /\ UNCHANGED not_tvars
    /\ UNCHANGED <<prog, tmp, files, now, events, acq>>

\* lines 232-237 and 242-243: the upload returns or raises
handle_terabox_upload(h) ==
    /\ prog = "app"
    /\ pc[h] = "uploading"
    /\ \E sent \in BOOLEAN :
         Goes(h, IF sent THEN "sent_edit" ELSE "err_edit",
                 IF sent THEN "sent" ELSE "upload_failed")
    /\ UNCHANGED not_tvars
    /\ UNCHANGED <<prog, tmp, written, files, now, dl_semaphore, events, acq, rel>>

\* lines 236-250: the "Sent successfully" edit returns or raises (swallowed),
\* then the finally removes the temp file
handle_terabox_sent_edit(h) ==
    /\ prog = "app"
    /\ pc[h] = "sent_edit"
    /\ files' = Removed(h)
    /\ Ends(h, "done", how[h])
    /\ UNCHANGED not_tvars
    /\ UNCHANGED <<prog, now, dl_semaphore, events, acq, rel>>

\* lines 240-250: the error edit of an except block returns or raises, then
\* the finally removes the temp file
handle_terabox_err_edit(h) ==
    /\ prog = "app"
    /\ pc[h] = "err_edit"
    /\ files' = Removed(h)
    /\ \E edited \in BOOLEAN : Ends(h, IF edited THEN "done" ELSE "raised", how[h])
    /\ UNCHANGED not_tvars
    /\ UNCHANGED <<prog, now, dl_semaphore, events, acq, rel>>

\* CancelledError is thrown into task h at the await it is suspended at.  It
\* passes `except Exception`; the finally blocks it unwinds through run.
handle_terabox_cancel(h) ==
    /\ prog = "app"
    /\ pc[h] \in {"fetching", "starting", "waiting", "opening", "streaming",
                  "uploading", "sent_edit", "err_edit"}
    /\ CASE pc[h] = "waiting" ->
              dl_semaphore' = cancelled_waiter(dl_semaphore, h) /\ rel' = rel
         [] pc[h] \in {"opening", "streaming"} -> LeavesBlock(h, FALSE)
         [] OTHER -> UNCHANGED <<dl_semaphore, rel>>
    /\ files' = IF pc[h] \in {"fetching", "starting"} THEN files ELSE Removed(h)
    /\ Ends(h, "cancelled", how[h])
    /\ UNCHANGED not_tvars
    /\ UNCHANGED <<prog, now, events, acq>>

handle_terabox(h) ==
    \/ handle_terabox_start(h)
    \/ handle_terabox_extract(h)
    \/ handle_terabox_acquire(h)
    \/ handle_terabox_resume(h)
    \/ handle_terabox_respond(h)
    \/ handle_terabox_chunk(h)
    \/ handle_terabox_stream_end(h)
    \/ handle_terabox_stream_fail(h)
    \/ handle_terabox_upload(h)
    \/ handle_terabox_sent_edit(h)
    \/ handle_terabox_err_edit(h)

(***************************************************************************)
(* cb_mirror (src/bot.py), one action per stretch between awaits.  It      *)
(* takes no slot of any pool: src/bot.py holds no semaphore.               *)
(***************************************************************************)
MirrorSizes == {0, 1, MIRROR_MAX_BYTES, MIRROR_MAX_BYTES + 1}

\* a keyboard that leaves the direct link out
on_links_buttons_without_link(final_link, other_dlink, short_link, auto_mirror, file_size) ==
    {"info"}

\* src/bot.py:547-556: the buttons on_links puts under its reply, given
\* whether final_link, a dlink different from it and a short link exist
on_links_buttons(final_link, other_dlink, short_link, auto_mirror, file_size) ==
    (IF final_link THEN {"open"} ELSE {})
        \cup (IF other_dlink THEN {"source"} ELSE {})
        \cup (IF short_link THEN {"short"} ELSE {})
        \cup {"info"}
        \cup (IF auto_mirror /\ file_size <= MIRROR_MAX_BYTES THEN {"mirror"} ELSE {})

\* what bot_data_store.get(key) gives: nothing, or a ResolveResult with a
\* direct_link (line 615) that on_links stored (line 569) after its reply
\* with the buttons was sent (line 565)
Stored ==
    [found : {FALSE}, size : {0}, buttons : {{}}]
    \cup { [found |-> TRUE, size |-> z,
            buttons |-> on_links_buttons(TRUE, d, s, m, z)] :
              z \in MirrorSizes, d \in BOOLEAN, s \in BOOLEAN, m \in BOOLEAN }

\* (res.file_size or 0) > MIRROR_MAX_BYTES
\* file_size > max_bytes, for a ceiling of max_bytes
mirror_gate(file_size, max_bytes) == file_size > max_bytes

too_large_bytes(file_size) == mirror_gate(file_size, MIRROR_MAX_BYTES)

\* lines 612-621: look the result up, size check, "Downloading to server"
cb_mirror_start(h) ==
    /\ prog = "bot"
    /\ Arrives(h)
    /\ h <= MAX_CONCURRENT + 1
    /\ \E res \in Stored, answered \in BOOLEAN :
         IF ~res.found
         THEN Ends(h, IF answered THEN "done" ELSE "raised", "nothing")
         ELSE IF too_large_bytes(res.size)
              THEN EndsWith(h, IF answered THEN "done" ELSE "raised", "too_large",
                            NoPath, "open" \in res.buttons)
              ELSE IF answered
                   THEN Goes(h, "announced", "none") /\ UNCHANGED <<tmp, written>>
                   ELSE Ends(h, "raised", "reply_failed")
    /\ UNCHANGED not_tvars
    /\ UNCHANGED <<prog, files, now, dl_semaphore, events, acq, rel>>

\* lines 623-631: the temp name from the clock in whole seconds and the file
\* name, then the GET is sent
cb_mirror_begin(h) ==
    /\ prog = "bot"
    /\ pc[h] = "announced"
    /\ \E t \in Times, name \in Names :
         /\ Clock(t)
         /\ now' = t
         /\ tmp' = [tmp EXCEPT ![h] = <<t \div MsPerSec, name>>]
    /\ Goes(h, "opening", "none")
    /\ UNCHANGED not_tvars
    /\ UNCHANGED <<prog, written, files, dl_semaphore, events, acq, rel>>

\* lines 631-635: the response arrives; only a status of 400 or more is
\* refused; open(tmp, "wb")
cb_mirror_respond(h) ==
    /\ prog = "bot"
    /\ pc[h] = "opening"
    /\ \E r \in {"status", "connect_error", "open_error"}, status \in Statuses :
         IF r = "status" /\ status >= 400
         THEN Goes(h, "status_edit", "http_status") /\ UNCHANGED <<files, written>>
         ELSE IF r = "status"
              THEN /\ files' = files \cup {tmp[h]}
                   /\ written' = [written EXCEPT ![h] = 0]
                   /\ Goes(h, "streaming", "none")
              ELSE Goes(h, "err_edit", "io_error") /\ UNCHANGED <<files, written>>
    /\ UNCHANGED not_tvars
    /\ UNCHANGED <<prog, tmp, now, dl_semaphore, events, acq, rel>>

\* lines 635-644: one chunk is written (an empty one is skipped); the
\* progress edit, made when the size is known and 1.5 s have passed, is not
\* guarded: when it raises, the outer except takes over (line 655)
cb_mirror_chunk(h) ==
    /\ prog = "bot"
    /\ pc[h] = "streaming"
    /\ \E n \in 0..MaxBytes, edit \in {"none", "ok", "failed"} :
         /\ written[h] + n <= MaxBytes
         /\ n = 0 => edit = "none"
         /\ IF edit = "failed"
            THEN /\ Goes(h, "err_edit", "progress_edit_failed")
                 /\ written' = [written EXCEPT ![h] = 0]
            ELSE /\ written' = [written EXCEPT ![h] = @ + n]
                 /\ last' = NoEvent
                 /\ UNCHANGED <<pc, how>>
    /\ UNCHANGED not_tvars
    /\ UNCHANGED <<prog, tmp, files, now, dl_semaphore, events, acq, rel>>

\* the stream is exhausted: the file is closed, "Uploading" is edited in
\* (line 647)
cb_mirror_stream_end(h) ==
    /\ prog = "bot"
    /\ pc[h] = "streaming"
    /\ Goes(h, "pre_upload", "none")
    /\ written' = [written EXCEPT ![h] = 0]
    /\ UNCHANGED not_tvars
    /\ UNCHANGED <<prog, tmp, files, now, dl_semaphore, events, acq, rel>>

\* an I/O error in the middle of the stream: line 655
cb_mirror_stream_fail(h) ==
    /\ prog = "bot"
    /\ pc[h] = "streaming"
    /\ Goes(h, "err_edit", IF written[h] > 0 THEN "io_error_partial" ELSE "io_error")
    /\ written' = [written EXCEPT ![h] = 0]
    /\ UNCHANGED not_tvars
    /\ UNCHANGED <<prog, tmp, files, now, dl_semaphore, events, acq, rel>>

\* line 647 returns or raises; line 649 sends the document
cb_mirror_pre_upload(h) ==
    /\ prog = "bot"
    /\ pc[h] = "pre_upload"
    /\ \E edited \in BOOLEAN :
         Goes(h, IF edited THEN "uploading" ELSE "err_edit",
                 IF edited THEN "none" ELSE "edit_failed")
    /\ UNCHANGED not_tvars
    /\ UNCHANGED <<prog, tmp, written, files, now, dl_semaphore, events, acq, rel>>

\* lines 649-653: send_document reads the temp file; it returns or raises
cb_mirror_upload(h) ==
    /\ prog = "bot"
    /\ pc[h] = "uploading"
    /\ \E sent \in BOOLEAN :
         /\ sent => tmp[h] \in files
         /\ Goes(h, IF sent THEN "deleting" ELSE "upfail_edit",
                    IF sent THEN "sent" ELSE "upload_failed")
    /\ UNCHANGED not_tvars
    /\ UNCHANGED <<prog, tmp, written, files, now, dl_semaphore, events, acq, rel>>

\* line 653: msg.delete() returns (then the finally, lines 656-658) or raises
\* (line 655)
cb_mirror_delete(h) ==
    /\ prog = "bot"
    /\ pc[h] = "deleting"
    /\ \E deleted \in BOOLEAN :
         IF deleted
         THEN files' = Removed(h) /\ Ends(h, "done", "sent")
         ELSE Goes(h, "err_edit", "delete_failed") /\ UNCHANGED <<files, tmp, written>>
    /\ UNCHANGED not_tvars
    /\ UNCHANGED <<prog, now, dl_semaphore, events, acq, rel>>

\* lines 651-652 ("Upload failed") and line 633 ("HTTP ... while
\* downloading"): the edit returns, then return and the finally; or it
\* raises into line 655
cb_mirror_return_edit(h) ==
    /\ prog = "bot"
    /\ pc[h] \in {"upfail_edit", "status_edit"}
    /\ \E edited \in BOOLEAN :
         IF edited
         THEN files' = Removed(h) /\ Ends(h, "done", how[h])
         ELSE Goes(h, "err_edit", how[h]) /\ UNCHANGED <<files, tmp, written>>
    /\ UNCHANGED not_tvars
    /\ UNCHANGED <<prog, now, dl_semaphore, events, acq, rel>>

\* lines 654-658: the "Mirror failed" edit returns or raises, then the finally
cb_mirror_err_edit(h) ==
    /\ prog = "bot"
    /\ pc[h] = "err_edit"
    /\ files' = Removed(h)
    /\ \E edited \in BOOLEAN : Ends(h, IF edited THEN "done" ELSE "raised", how[h])
    /\ UNCHANGED not_tvars
    /\ UNCHANGED <<prog, now, dl_semaphore, events, acq, rel>>

\* CancelledError is thrown into task h at the await it is suspended at
cb_mirror_cancel(h) ==
    /\ prog = "bot"
    /\ pc[h] \in {"announced", "opening", "streaming", "pre_upload", "uploading",
                  "deleting", "upfail_edit", "status_edit", "err_edit"}
    /\ files' = IF pc[h] = "announced" THEN files ELSE Removed(h)
    /\ Ends(h, "cancelled", how[h])
    /\ UNCHANGED not_tvars
    /\ UNCHANGED <<prog, now, dl_semaphore, events, acq, rel>>

cb_mirror(h) ==
    \/ cb_mirror_start(h)
    \/ cb_mirror_begin(h)
    \/ cb_mirror_respond(h)
    \/ cb_mirror_chunk(h)
    \/ cb_mirror_stream_end(h)
    \/ cb_mirror_stream_fail(h)
    \/ cb_mirror_pre_upload(h)
    \/ cb_mirror_upload(h)
    \/ cb_mirror_delete(h)
    \/ cb_mirror_return_edit(h)
    \/ cb_mirror_err_edit(h)

(***************************************************************************)
(* src/bot.py: resolve_terabox.                                            *)
(*                                                                         *)
(* Python values.  A str is the sequence of its tokens, << >> the empty    *)
(* string.  A dict is a function on the keys the model looks up; a key the *)
(* dict does not have is mapped to Absent.  None is also JSON null.        *)
(***************************************************************************)
None == [t |-> "null"]
Absent == [t |-> "absent"]
JBool(b) == [t |-> "bool", b |-> b]
JNum(n) == [t |-> "num", n |-> n]
JStr(s) == [t |-> "str", s |-> s]
JList(xs) == [t |-> "list", xs |-> xs]
JObj(f) == [t |-> "obj", f |-> f]

\* Python truth value testing: `if v`, `not v`, `v or w`
Truthy(v) ==
    CASE v.t = "null" -> FALSE
      [] v.t = "bool" -> v.b
      [] v.t = "num"  -> v.n # 0
      [] v.t = "str"  -> v.s # << >>
      [] v.t = "list" -> v.xs # << >>
      [] v.t = "obj"  -> \E k \in DOMAIN v.f : v.f[k].t # "absent"

Or(v, w) == IF Truthy(v) THEN v ELSE w

\* dict.get(k) and dict.get(k, default)
GetOr(o, k, default) ==
    IF k \in DOMAIN o.f /\ o.f[k].t # "absent" THEN o.f[k] ELSE default

Get(o, k) == GetOr(o, k, None)

\* int(v): the decimal strings of the model and their values
Decimal == [s \in {<<"12">>} |-> 12]

CanInt(v) == v.t \in {"num", "bool"} \/ (v.t = "str" /\ v.s \in DOMAIN Decimal)

IntError(v) == IF v.t = "str" THEN "ValueError" ELSE "TypeError"

int(v) ==
    CASE v.t = "num"  -> v.n
      [] v.t = "bool" -> IF v.b THEN 1 ELSE 0
      [] v.t = "str"  -> Decimal[v.s]

\* hay.index(tok, i): the first position >= i of tok, 0 for ValueError
IndexFrom(hay, tok, i) ==
    IF \E j \in i..Len(hay) : hay[j] = tok
    THEN CHOOSE j \in i..Len(hay) :
             hay[j] = tok /\ \A k \in i..(j - 1) : hay[k] # tok
    ELSE 0

find_between(hay, left, right) ==
    LET l == IndexFrom(hay, left, 1)
    IN  IF l = 0 THEN None
        ELSE LET j == IndexFrom(hay, right, l + 1)
             IN  IF j = 0 THEN None ELSE JStr(SubSeq(hay, l + 1, j - 1))

\* a URL: its host, the segments of its path between "/", its surl parameter
\* (<< >> when the query has none: parse_qs drops blank values)
extract_short_code(u) ==
    LET parts == u.path
        has_s == \E i \in 2..(Len(parts) - 1) : parts[i] = "s"
        idx   == IndexFrom(parts, "s", 1)
        code  == IF idx + 1 <= Len(parts) THEN parts[idx + 1] ELSE ""
    IN  IF has_s /\ code # "" THEN JStr(<<code>>)
        ELSE IF u.surl # << >> THEN JStr(u.surl)
        ELSE None

\* url.replace("teraboxlink.com", "terabox.com")
normalized(u) ==
    [u EXCEPT !.host = IF @ = "teraboxlink.com" THEN "terabox.com" ELSE @]

ResolveResult(ok, error, file_name, file_size, dlink, direct_link, thumb, source) ==
    [ok |-> ok, error |-> error, file_name |-> file_name,
     file_size |-> file_size, dlink |-> dlink, direct_link |-> direct_link,
     thumb |-> thumb, source |-> source]

Failure(error) ==
    ResolveResult(FALSE, JStr(error), None, None, None, None, None, None)

FetchFailed == <<"Fetch failed: ">>
HttpError(status) == <<"HTTP ", ToString(status), " on initial URL">>
MissingParameters == <<"Missing required parameters (short/logid/jsToken)">>
ListingFailed == <<"Failed loading share/list: ">>
\* an f-string's rendering of a value
Format(v) ==
    CASE v.t = "num" -> <<ToString(v.n)>>
      [] v.t = "str" -> v.s
      [] OTHER       -> <<"?">>

ApiError(errno) == <<"TeraBox API error: errno=">> \o Format(errno)
NoFiles == <<"No files found in this share.">>
NoLink == <<"No downloadable link exposed (private or unsupported).">>

(***************************************************************************)
(* The upstream's answers the model draws from.                            *)
(***************************************************************************)
Urls ==
    { [host |-> "terabox.com",     path |-> <<"", "s", "abc">>,        surl |-> << >>],
      [host |-> "teraboxlink.com", path |-> <<"", "sharing", "link">>, surl |-> <<"xyz">>],
      [host |-> "terabox.app",     path |-> <<"", "s", "">>,           surl |-> << >>] }

PageStatuses == {200, 204, 404}

Pages ==
    { <<"og:image\" content=\"", "th", "\"", "dp-logid=", "L1", "&",
        "fn%28%22", "T1", "%22%29">>,
      <<"dp-logid=", "L1", "&", "fn%28%22", "T1", "%22%29">>,
      <<"dp-logid=", "&", "fn%28%22", "T1", "%22%29">>,
      <<"dp-logid=", "L1", "&", "fn%28%22", "T1">>,
      << >> }

Errnos == {Absent, JStr(<<"0">>)} \cup {JNum(n) : n \in (0 - MaxErrno)..MaxErrno}

DlinkValues == {Absent, JStr(<< >>), JStr(<<"https://d/1">>), JNum(5)}

NameValues == {Absent, JStr(<<"a.bin">>)}

SizeValues ==
    {Absent, JStr(<<"12">>), JStr(<<"abc">>), JList(<<JNum(1)>>)}
        \cup {JNum(n) : n \in 0..MaxSize}

ThumbValues == {Absent, JObj([url3 |-> JStr(<<"t3">>)]), JObj([url3 |-> Absent]),
                JStr(<<"t">>)}

Items ==
    { JObj([dlink |-> d, server_filename |-> f, size |-> z, thumbs |-> t]) :
        d \in DlinkValues, f \in NameValues, z \in SizeValues, t \in ThumbValues }
    \cup {JStr(<<"x">>), None}

Lists ==
    {Absent, JList(<< >>), JStr(<<"abc">>), JNum(7), JObj([k |-> JNum(1)])}
        \cup {JList(<<i>>) : i \in Items}

Bodies ==
    { JObj([errno |-> e, list |-> l]) : e \in Errnos, l \in Lists }
        \cup {None, JList(<< >>), JNum(3), JStr(<<"busy">>)}

Locations == {None, JStr(<< >>), JStr(<<"https://cdn/1">>)}

\* the HEAD fails, or is answered with or without a Location header
ProbeAnswers ==
    {[net |-> "error", location |-> None]}
        \cup {[net |-> "response", location |-> l] : l \in Locations}

\* what line 299 raises before anything is sent
ProbeRaised == [net |-> "error", location |-> None]

NoUrl == [host |-> "", path |-> << >>, surl |-> << >>]
NoPage == [net |-> "none", status |-> 0, default_thumb |-> None]
NoFile == [dlink |-> None, fname |-> None, fsize |-> 0, thumb |-> None]

(***************************************************************************)
(* The straight-line code of resolve_terabox between its awaits.           *)
(***************************************************************************)
\* line 258: the page status that ends the resolution
http_error_above_400(status) == status >= 400
http_error(status) == status # 200

\* line 282: the errno that ends the resolution
api_error_positive(errno) == errno.t = "num" /\ errno.n > 0
api_error(errno) == Truthy(errno)

\* line 295: the dlink that ends the resolution
no_dlink_unchecked(dlink) == FALSE
no_dlink(dlink) == ~Truthy(dlink)

Raises(e) == [kind |-> "raise", exc |-> e]
Fails(error) == [kind |-> "fail", error |-> error]

\* lines 260-269: the tokens of the page and the short code
tokens(html, final, url) ==
    [default_thumb |-> Or(find_between(html, "og:image\" content=\"", "\""), None),
     logid   |-> find_between(html, "dp-logid=", "&"),
     jsToken |-> find_between(html, "fn%28%22", "%22%29"),
     short   |-> Or(extract_short_code(final), extract_short_code(url))]

\* lines 282-296: from the parsed body to the probe, an error result, or an
\* exception that nothing catches
after_listing(data, default_thumb) ==
    IF data.t # "obj" THEN Raises("AttributeError")
    ELSE IF api_error(Get(data, "errno"))
    THEN Fails(ApiError(Get(data, "errno")))
    ELSE
    LET items == Or(Get(data, "list"), JList(<< >>))
    IN  IF ~Truthy(items) THEN Fails(NoFiles)
        ELSE IF items.t = "obj" THEN Raises("KeyError")
        ELSE IF items.t \notin {"list", "str"} THEN Raises("TypeError")
        ELSE
        LET file == IF items.t = "list" THEN items.xs[1]
                    ELSE JStr(SubSeq(items.s, 1, 1))
        IN  IF file.t # "obj" THEN Raises("AttributeError")
            ELSE
            LET dlink  == Get(file, "dlink")
                fname  == Or(Get(file, "server_filename"), JStr(<<"file">>))
                size   == Or(Get(file, "size"), JNum(0))
                thumbs == Or(Get(file, "thumbs"), JObj([url3 |-> Absent]))
            IN  IF ~CanInt(size) THEN Raises(IntError(size))
                ELSE IF thumbs.t # "obj" THEN Raises("AttributeError")
                ELSE IF no_dlink(dlink) THEN Fails(NoLink)
                ELSE [kind |-> "probe", dlink |-> dlink, fname |-> fname,
                      fsize |-> int(size),
                      thumb |-> GetOr(thumbs, "url3", default_thumb)]

\* lines 299-303: direct, from the probe's outcome
direct_without_fallback(answer, dlink) ==
    IF answer.net = "error" THEN None ELSE answer.location

direct_link(answer, dlink) ==
    IF answer.net = "error" THEN dlink ELSE Or(answer.location, dlink)

\* lines 305-313
Success(f, direct) ==
    ResolveResult(TRUE, None, f.fname, JNum(f.fsize), f.dlink, direct, f.thumb,
                  JStr(<<"share/list">>))

RInit ==
    /\ rpc = "idle"
    /\ kw_ok \in BOOLEAN
    /\ probe_answer \in ProbeAnswers
    /\ rurl = NoUrl
    /\ reqs = << >>
    /\ page = NoPage
    /\ listing = Absent
    /\ file0 = NoFile
    /\ result = None
    /\ exc = "none"

\* the resolver is not running
ROff ==
    /\ rpc = "off"
    /\ kw_ok = TRUE
    /\ probe_answer = ProbeRaised
    /\ rurl = NoUrl
    /\ reqs = << >>
    /\ page = NoPage
    /\ listing = Absent
    /\ file0 = NoFile
    /\ result = None
    /\ exc = "none"

Returns(r) ==
    /\ rpc' = "returned"
    /\ result' = r
    /\ UNCHANGED <<probe_answer, kw_ok, rurl, reqs, file0, exc>>

\* lines 251-254: the call, up to the page request
resolve_terabox_call ==
    /\ rpc = "idle"
    /\ \E url \in Urls : rurl' = normalized(url)
    /\ reqs' = <<"page">>
    /\ rpc' = "page"
    /\ UNCHANGED <<probe_answer, kw_ok, page, listing, file0, result, exc>>
    /\ UNCHANGED not_rvars

\* lines 254-278: the page fetch ends; up to the share/list request
resolve_terabox_page ==
    /\ rpc = "page"
    /\ \E net \in {"error", "response"}, status \in PageStatuses,
          html \in Pages, final \in Urls :
         LET tk == tokens(html, final, rurl)
         IN  IF net = "error"
             THEN /\ page' = [NoPage EXCEPT !.net = net]
                  /\ Returns(Failure(FetchFailed))
             ELSE IF http_error(status)
             THEN /\ page' = [NoPage EXCEPT !.net = net, !.status = status]
                  /\ Returns(Failure(HttpError(status)))
             ELSE /\ page' = [net |-> net, status |-> status,
                              default_thumb |-> tk.default_thumb]
                  /\ IF ~(Truthy(tk.short) /\ Truthy(tk.logid) /\ Truthy(tk.jsToken))
                     THEN Returns(Failure(MissingParameters))
                     ELSE /\ reqs' = Append(reqs, "list")
                          /\ rpc' = "list"
                          /\ UNCHANGED <<probe_answer, kw_ok, rurl, file0, result, exc>>
    /\ UNCHANGED listing
    /\ UNCHANGED not_rvars

\* lines 277-301: the share/list call ends; up to the probe request.  The
\* probe raises before it sends anything when httpx does not take
\* allow_redirects or the dlink is no str.
resolve_terabox_list ==
    /\ rpc = "list"
    /\ \E net \in {"error", "not_json", "json"}, data \in Bodies :
         IF net # "json"
         THEN /\ listing' = Absent
              /\ Returns(Failure(ListingFailed))
         ELSE LET o == after_listing(data, page.default_thumb)
              IN  /\ listing' = data
                  /\ CASE o.kind = "raise" ->
                            /\ rpc' = "raised"
                            /\ exc' = o.exc
                            /\ UNCHANGED <<probe_answer, kw_ok, rurl, reqs, file0, result>>
                       [] o.kind = "fail" -> Returns(Failure(o.error))
                       [] o.kind = "probe" ->
                            LET f == [dlink |-> o.dlink, fname |-> o.fname,
                                      fsize |-> o.fsize, thumb |-> o.thumb]
                            IN  IF kw_ok /\ o.dlink.t = "str"
                                THEN /\ reqs' = Append(reqs, "probe")
                                     /\ rpc' = "probe"
                                     /\ file0' = f
                                     /\ UNCHANGED <<probe_answer, kw_ok, rurl, result, exc>>
                                ELSE Returns(Success(f, direct_link(ProbeRaised, o.dlink)))
    /\ UNCHANGED page
    /\ UNCHANGED not_rvars

\* lines 300-313: the probe ends
resolve_terabox_probe ==
    /\ rpc = "probe"
    /\ Returns(Success(file0, direct_link(probe_answer, file0.dlink)))
    /\ UNCHANGED <<page, listing>>
    /\ UNCHANGED not_rvars

resolve_terabox ==
    \/ resolve_terabox_call
    \/ resolve_terabox_page
    \/ resolve_terabox_list
    \/ resolve_terabox_probe

(***************************************************************************)
(* The size gates: handle_terabox (src/app/bot.py:193-212), the mirror     *)
(* button of on_links (src/bot.py:555) and cb_mirror (src/bot.py:618).     *)
(***************************************************************************)
\* info.get("sizebytes") or 0;  res.file_size or 0
size_or_0(v) == Or(v, JNum(0)).n

Gates == {"handle_terabox", "on_links", "cb_mirror"}

\* ceilings the gate of handler g is run with: small ones and the configured
Ceilings(g) ==
    (0..MaxCeiling) \cup (IF g = "handle_terabox" THEN {MAX_FILE_MB}
                          ELSE {MIRROR_MAX_BYTES})

\* the ceiling c of handler g in bytes
CeilingBytes(g, c) == IF g = "handle_terabox" THEN c * MiB ELSE c

\* sizes a file may have: missing, zero, small, and around the ceiling b
SizesAround(b) ==
    {None} \cup {JNum(n) : n \in (0..MaxCeiling) \cup {m \in {b - 1, b, b + 1} : m >= 0}}

GOff ==
    /\ gate = "none"
    /\ ceiling = 0
    /\ fsize = None
    /\ verdict = "none"

GInit ==
    /\ gate \in Gates
    /\ ceiling \in Ceilings(gate)
    /\ fsize \in SizesAround(CeilingBytes(gate, ceiling))
    /\ verdict = "none"

\* src/app/bot.py:195-203
size_gate_handle_terabox ==
    /\ gate = "handle_terabox"
    /\ verdict = "none"
    /\ verdict' = IF size_gate(size_or_0(fsize), ceiling) THEN "reject" ELSE "proceed"
    /\ UNCHANGED <<gate, ceiling, fsize>>
    /\ UNCHANGED not_gvars

\* src/bot.py:555: the mirror button is offered (auto_mirror being set)
size_gate_on_links ==
    /\ gate = "on_links"
    /\ verdict = "none"
    /\ verdict' = IF size_or_0(fsize) <= ceiling THEN "proceed" ELSE "reject"
    /\ UNCHANGED <<gate, ceiling, fsize>>
    /\ UNCHANGED not_gvars

\* src/bot.py:618
size_gate_cb_mirror ==
    /\ gate = "cb_mirror"
    /\ verdict = "none"
    /\ verdict' = IF mirror_gate(size_or_0(fsize), ceiling) THEN "reject" ELSE "proceed"
    /\ UNCHANGED <<gate, ceiling, fsize>>
    /\ UNCHANGED not_gvars

GNext == size_gate_handle_terabox \/ size_gate_on_links \/ size_gate_cb_mirror

(***************************************************************************)
(* src/app/limits.py: a RateLimiter(limit=USER_RATE_LIMIT, window_sec=3600) *)
(* called by two users at non-decreasing times.                            *)
(***************************************************************************)
LimUsers == {"U", "V"}

\* time that passes between one call and the next, in ms
Deltas == {0, 1, window - 1, window}

\* RateLimiter.__init__
LInit ==
    /\ lim_now = 0
    /\ lim_events = << >>
    /\ lim_log = << >>

\* one call of rate_limiter.check(user_id)
rate_limiter_check ==
    /\ Len(lim_log) < MaxCalls
    /\ \E u \in LimUsers, d \in Deltas :
         LET t == lim_now + d
             r == check(lim_events, u, t)
         IN  /\ lim_now' = t
             /\ lim_events' = r.events
             /\ lim_log' = Append(lim_log, [u |-> u, t |-> t, ok |-> r.ok, wait |-> r.wait])
    /\ UNCHANGED not_lvars

(***************************************************************************)
(* One transfer in detail.  stream_download (src/app/bot.py:98-132) inside *)
(* handle_terabox (lines 219-250), and cb_mirror (src/bot.py:625-658).     *)
(* The k-th byte the source delivers is the number k.  Time is counted in  *)
(* half seconds.                                                           *)
(***************************************************************************)
StreamStatuses == {100, 200, 206, 302, 404}

NoFileYet == [exists |-> FALSE, data |-> << >>]
NoUpload == [tried |-> FALSE, sent |-> FALSE, from_file |-> FALSE, data |-> << >>]

\* time that passes before a chunk arrives
ClockSteps == {0, MirrorThrottle, AppThrottle}

\* src/app/bot.py:107 raise_for_status; src/bot.py:632 status_code >= 400
refused(p, status) == IF p = "app" THEN ~is_success(status) ELSE status >= 400

\* bytes Len(sent)+1 .. Len(sent)+n: the next chunk of the source
next_chunk(sent, n) == [i \in 1..n |-> Len(sent) + i]

\* f.write(chunk)
write(data, chunk) == data \o chunk

\* a progress edit that is due at every chunk
progress_due_unthrottled(p, total, t, last_edit) ==
    IF p = "app" THEN TRUE ELSE total # 0

\* src/app/bot.py:122 now - last_update >= 2.0;
\* src/bot.py:641 total and now - last_edit > 1.5
progress_due(p, total, t, last_edit) ==
    IF p = "app" THEN t - last_edit >= AppThrottle
    ELSE total # 0 /\ t - last_edit > MirrorThrottle

\* a handler that goes on to the upload whether the stream failed or not
after_stream_ignoring_failure(p, failed) ==
    IF p = "app" THEN "uploading" ELSE "pre_upload"

\* where the handler continues when the stream has ended: an exception
\* leaves the try (src/app/bot.py:240-243, src/bot.py:654-655), otherwise
\* the upload follows (src/app/bot.py:229-234, src/bot.py:646-649)
after_stream(p, failed) ==
    IF failed THEN "err_edit"
    ELSE IF p = "app" THEN "uploading" ELSE "pre_upload"

SOff ==
    /\ s_prog = "off"
    /\ s_pc = "off"
    /\ s_status = 0
    /\ s_sent = << >>
    /\ s_chunks = 0
    /\ s_total = 0
    /\ s_file = NoFileYet
    /\ s_created = FALSE
    /\ s_downloaded = 0
    /\ s_now = 0
    /\ s_last_update = 0
    /\ s_reported = 0 - 1
    /\ s_edit_failed = FALSE
    /\ s_exhausted = FALSE
    /\ s_aborted = FALSE
    /\ s_why = "none"
    /\ s_error = "none"
    /\ s_uploaded = NoUpload
    /\ s_edit_times = << >>

\* the GET has been sent (src/app/bot.py:106, src/bot.py:631); time.time() is
\* far beyond both throttles, last_update and last_edit start at 0
SInit ==
    /\ s_prog \in {"app", "bot"}
    /\ s_pc = "opening"
    /\ s_status = 0
    /\ s_sent = << >>
    /\ s_chunks = 0
    /\ s_total \in {0, MaxStreamBytes}
    /\ s_file = NoFileYet
    /\ s_created = FALSE
    /\ s_downloaded = 0
    /\ s_now = 2 * AppThrottle
    /\ s_last_update = 0
    /\ s_reported = 0 - 1
    /\ s_edit_failed = FALSE
    /\ s_exhausted = FALSE
    /\ s_aborted = FALSE
    /\ s_why = "none"
    /\ s_error = "none"
    /\ s_uploaded = NoUpload
    /\ s_edit_times = << >>

\* src/app/bot.py:106-115, src/bot.py:631-634: the response arrives, its
\* status is checked, the temp file is opened for writing
transfer_respond ==
    /\ s_pc = "opening"
    /\ \E r \in {"status", "connect_error", "open_error"}, status \in StreamStatuses :
         IF r = "connect_error"
         THEN /\ s_pc' = "err_edit"
              /\ s_why' = "error"
              /\ UNCHANGED <<s_status, s_file, s_created>>
         ELSE /\ s_status' = status
              /\ IF refused(s_prog, status)
                 THEN /\ s_pc' = "err_edit"
                      /\ s_why' = "http_status"
                      /\ UNCHANGED <<s_file, s_created>>
                 ELSE IF r = "open_error"
                 THEN /\ s_pc' = "err_edit"
                      /\ s_why' = "error"
                      /\ UNCHANGED <<s_file, s_created>>
                 ELSE /\ s_pc' = "streaming"
                      /\ s_file' = [exists |-> TRUE, data |-> << >>]
                      /\ s_created' = TRUE
                      /\ s_why' = s_why
    /\ UNCHANGED <<s_prog, s_sent, s_chunks, s_total, s_downloaded, s_now,
                   s_last_update, s_reported, s_edit_failed, s_exhausted,
                   s_aborted, s_error, s_uploaded>>
    /\ UNCHANGED s_edit_times
    /\ UNCHANGED not_svars

\* src/app/bot.py:116-132, src/bot.py:635-644: one chunk arrives; an empty
\* one is skipped; the progress edit, when due, is swallowed on failure in
\* stream_download and leaves the try in cb_mirror
transfer_chunk ==
    /\ s_pc = "streaming"
    /\ s_chunks < MaxChunks
    /\ \E n \in 0..(MaxStreamBytes - Len(s_sent)), d \in ClockSteps, edited \in BOOLEAN :
         LET chunk == next_chunk(s_sent, n)
             t     == s_now + d
             due   == progress_due(s_prog, s_total, t, s_last_update)
         IN  /\ s_chunks' = s_chunks + 1
             /\ s_sent' = s_sent \o chunk
             /\ IF n = 0
                THEN /\ d = 0 /\ edited
                     /\ UNCHANGED <<s_pc, s_file, s_downloaded, s_now, s_last_update,
                                    s_reported, s_edit_failed, s_why, s_edit_times>>
                ELSE /\ s_file' = [s_file EXCEPT !.data = write(@, chunk)]
                     /\ s_downloaded' = s_downloaded + Len(chunk)
                     /\ s_now' = t
                     /\ (~due) => edited
                     /\ s_edit_failed' = (s_edit_failed \/ ~edited)
                     /\ s_edit_times' = IF due THEN Append(s_edit_times, t)
                                        ELSE s_edit_times
                     /\ s_reported' = IF due /\ edited THEN s_downloaded + Len(chunk)
                                      ELSE s_reported
                     /\ s_last_update' =
                          IF due /\ (s_prog = "app" \/ edited) THEN t ELSE s_last_update
                     /\ IF due /\ ~edited /\ s_prog = "bot"
                        THEN s_pc' = after_stream(s_prog, TRUE) /\ s_why' = "error"
                        ELSE UNCHANGED <<s_pc, s_why>>
    /\ UNCHANGED <<s_prog, s_status, s_total, s_created, s_exhausted, s_aborted,
                   s_error, s_uploaded>>
    /\ UNCHANGED not_svars

\* the source has no more chunks: the file and the response are closed
transfer_exhausted ==
    /\ s_pc = "streaming"
    /\ s_exhausted' = TRUE
    /\ s_pc' = after_stream(s_prog, FALSE)
    /\ UNCHANGED <<s_prog, s_status, s_sent, s_chunks, s_total, s_file, s_created,
                   s_downloaded, s_now, s_last_update, s_reported, s_edit_failed,
                   s_aborted, s_why, s_error, s_uploaded>>
    /\ UNCHANGED s_edit_times
    /\ UNCHANGED not_svars

\* the source aborts, or reading or writing raises, in the middle of the
\* stream
transfer_abort ==
    /\ s_pc = "streaming"
    /\ s_aborted' = TRUE
    /\ s_pc' = after_stream(s_prog, TRUE)
    /\ s_why' = "error"
    /\ UNCHANGED <<s_prog, s_status, s_sent, s_chunks, s_total, s_file, s_created,
                   s_downloaded, s_now, s_last_update, s_reported, s_edit_failed,
                   s_exhausted, s_error, s_uploaded>>
    /\ UNCHANGED s_edit_times
    /\ UNCHANGED not_svars

\* src/bot.py:647: the "Uploading" edit of cb_mirror returns or raises
transfer_pre_upload ==
    /\ s_pc = "pre_upload"
    /\ \E edited \in BOOLEAN :
         IF edited THEN s_pc' = "uploading" /\ s_why' = s_why
         ELSE s_pc' = "err_edit" /\ s_why' = "error"
    /\ UNCHANGED <<s_prog, s_status, s_sent, s_chunks, s_total, s_file, s_created,
                   s_downloaded, s_now, s_last_update, s_reported, s_edit_failed,
                   s_exhausted, s_aborted, s_error, s_uploaded>>
    /\ UNCHANGED s_edit_times
    /\ UNCHANGED not_svars

\* src/app/bot.py:231-234: answer_video / answer_document is given the path
\* as a str, which aiogram passes on as a file id or URL: the file's bytes
\* are not read.  src/bot.py:649: send_document(FSInputFile(tmp)) reads the
\* file.  The call returns or raises.
transfer_upload ==
    /\ s_pc = "uploading"
    /\ \E sent \in BOOLEAN :
         /\ s_uploaded' = [tried |-> TRUE, sent |-> sent,
                           from_file |-> (s_prog = "bot"),
                           data |-> IF s_prog = "bot" THEN s_file.data ELSE << >>]
         /\ IF sent THEN s_pc' = "finishing" /\ s_why' = s_why
            ELSE s_pc' = "err_edit" /\ s_why' = "upload_failed"
    /\ UNCHANGED <<s_prog, s_status, s_sent, s_chunks, s_total, s_file, s_created,
                   s_downloaded, s_now, s_last_update, s_reported, s_edit_failed,
                   s_exhausted, s_aborted, s_error>>
    /\ UNCHANGED s_edit_times
    /\ UNCHANGED not_svars

\* src/app/bot.py:236-250: the "Sent successfully" edit (a failure is
\* swallowed), then the finally.  src/bot.py:653-658: msg.delete() returns,
\* then the finally; or it raises into the except of line 654.
transfer_finish ==
    /\ s_pc = "finishing"
    /\ \E done \in BOOLEAN :
         IF done \/ s_prog = "app"
         THEN /\ s_pc' = "ended"
              /\ s_file' = NoFileYet
              /\ s_why' = s_why
         ELSE /\ s_pc' = "err_edit"
              /\ s_why' = "error"
              /\ s_file' = s_file
    /\ UNCHANGED <<s_prog, s_status, s_sent, s_chunks, s_total, s_created,
                   s_downloaded, s_now, s_last_update, s_reported, s_edit_failed,
                   s_exhausted, s_aborted, s_error, s_uploaded>>
    /\ UNCHANGED s_edit_times
    /\ UNCHANGED not_svars

\* src/app/bot.py:240-250, src/bot.py:633, 651, 655-658: the error message
\* of the branch taken is sent, then the finally removes the temp file
transfer_err_edit ==
    /\ s_pc = "err_edit"
    /\ s_error' = s_why
    /\ s_file' = NoFileYet
    /\ s_pc' = "ended"
    /\ UNCHANGED <<s_prog, s_status, s_sent, s_chunks, s_total, s_created,
                   s_downloaded, s_now, s_last_update, s_reported, s_edit_failed,
                   s_exhausted, s_aborted, s_why, s_uploaded>>
    /\ UNCHANGED s_edit_times
    /\ UNCHANGED not_svars

SNext ==
    \/ transfer_respond
    \/ transfer_chunk
    \/ transfer_exhausted
    \/ transfer_abort
    \/ transfer_pre_upload
    \/ transfer_upload
    \/ transfer_finish
    \/ transfer_err_edit

(***************************************************************************)
(* The bot of src/bot.py: its tables, its message and callback handlers in *)
(* the order they are registered, the per-user cooldown, the settings      *)
(* toggles and the owner's broadcast.                                      *)
(***************************************************************************)
OWNER_ID == "owner"

BotUsers == {OWNER_ID, "U"}

\* /start, /help, a text with "http://" or "https://" in it, any other text
MessageKinds == {"start", "help", "link", "text"}

CallbackData == {"toggle_short", "toggle_mirror", "owner_bcast"}

\* time that passes before an update arrives, in half seconds
BotDeltas == {1, 2 * RATE_LIMIT_S - 1, 2 * RATE_LIMIT_S}

\* int(time.time()) at time t
int_time(t) == t \div 2

\* the rows of a table after an INSERT or UPDATE of the row of uid
Put(table, uid, row) ==
    [v \in DOMAIN table \cup {uid} |-> IF v = uid THEN row ELSE table[v]]

NoLast ==
    [u |-> "none", kind |-> "none", t |-> 0, handler |-> "none",
     limited |-> FALSE, broadcast |-> FALSE, recipients |-> {},
     before |-> FALSE, announced |-> FALSE, shown |-> FALSE]

\* db_init on a new file: three empty tables
BInit ==
    /\ b_now = 2 * RATE_LIMIT_S
    /\ b_n = 0
    /\ b_users = {}
    /\ b_settings = << >>
    /\ b_ratelimit = << >>
    /\ b_menu = {}
    /\ b_asked = FALSE
    /\ b_passed = [u \in BotUsers |-> 0 - 1]
    /\ b_last = NoLast

BOff ==
    /\ b_now = 0
    /\ b_n = 0
    /\ b_users = {}
    /\ b_settings = << >>
    /\ b_ratelimit = << >>
    /\ b_menu = {}
    /\ b_asked = FALSE
    /\ b_passed = << >>
    /\ b_last = NoLast

\* INSERT OR IGNORE INTO settings(user_id): the defaults are 0, 0
settings_upsert(st, uid) ==
    IF uid \in DOMAIN st THEN st
    ELSE Put(st, uid, [auto_short |-> 0, auto_mirror |-> 0])

db_get_settings(st, uid) ==
    IF uid \notin DOMAIN st THEN [auto_short |-> FALSE, auto_mirror |-> FALSE]
    ELSE [auto_short |-> st[uid].auto_short # 0, auto_mirror |-> st[uid].auto_mirror # 0]

\* db_toggle: the value returned and the table after it; the UPDATE changes
\* no row when the user has none
db_toggle(st, uid, field) ==
    LET row == uid \in DOMAIN st
        val == IF row /\ st[uid][field] # 0 THEN 0 ELSE 1
    IN  [val |-> val # 0,
         settings |-> IF row THEN Put(st, uid, [st[uid] EXCEPT ![field] = val]) ELSE st]

\* db_should_limit at time t: the answer and the table after it
db_should_limit(rl, uid, t) ==
    LET now_s   == int_time(t)
        last_ts == IF rl[uid] = 0 THEN 0 ELSE rl[uid]
    IN  IF uid = OWNER_ID THEN [limit |-> FALSE, ratelimit |-> rl]
        ELSE IF uid \notin DOMAIN rl
        THEN [limit |-> FALSE, ratelimit |-> Put(rl, uid, now_s)]
        ELSE IF now_s - last_ts < RATE_LIMIT_S
        THEN [limit |-> TRUE, ratelimit |-> rl]
        ELSE [limit |-> FALSE, ratelimit |-> Put(rl, uid, now_s)]

\* UPDATE ratelimit SET last_ts=v WHERE user_id=uid: changes the row if any
ratelimit_update(rl, uid, v) ==
    IF uid \in DOMAIN rl THEN Put(rl, uid, v) ELSE rl

\* the message handler the dispatcher calls: the first registered one whose
\* filter passes (on_start, on_ping, on_id, on_help_cmd, on_owner_msg,
\* on_links, on_any); a handler that returns ends the dispatch
handler_of(u, kind) ==
    IF kind = "start" THEN "on_start"
    ELSE IF kind = "help" THEN "on_help_cmd"
    ELSE IF u = OWNER_ID THEN "on_owner_msg"
    ELSE IF kind = "link" THEN "on_links"
    ELSE "on_any"

\* one message is dispatched and handled
bot_message ==
    /\ b_n < MaxUpdates
    /\ \E u \in BotUsers, kind \in MessageKinds, d \in BotDeltas :
         LET t == b_now + d
             h == handler_of(u, kind)
             upsert  == h \in {"on_start", "on_links", "on_any"}
             pending == /\ h = "on_owner_msg"
                        /\ OWNER_ID \in DOMAIN b_ratelimit
                        /\ b_ratelimit[OWNER_ID] = 0 - 1
             verdict1 == db_should_limit(b_ratelimit, u, t)
         IN  /\ b_now' = t
             /\ b_n' = b_n + 1
             /\ b_users' = IF upsert THEN b_users \cup {u} ELSE b_users
             /\ b_settings' = IF upsert THEN settings_upsert(b_settings, u)
                              ELSE b_settings
             /\ b_ratelimit' =
                  IF h = "on_links" THEN verdict1.ratelimit
                  ELSE IF pending THEN ratelimit_update(b_ratelimit, OWNER_ID, int_time(t))
                  ELSE b_ratelimit
             /\ b_menu' = IF h \in {"on_start", "on_help_cmd", "on_any"}
                          THEN b_menu \cup {u} ELSE b_menu
             /\ b_asked' = IF u = OWNER_ID THEN FALSE ELSE b_asked
             /\ b_passed' = IF h = "on_links" /\ ~verdict1.limit
                            THEN [b_passed EXCEPT ![u] = t] ELSE b_passed
             /\ b_last' = [NoLast EXCEPT !.u = u, !.kind = kind, !.t = t,
                            !.handler = h,
                            !.limited = (h = "on_links" /\ verdict1.limit),
                            !.broadcast = pending,
                            !.recipients = IF pending THEN b_users ELSE {}]
    /\ UNCHANGED not_bvars

\* one callback query of a button of the menu is handled: cb_tshort,
\* cb_tmirror, cb_owner_bcast
bot_callback ==
    /\ b_n < MaxUpdates
    /\ \E u \in b_menu, data \in CallbackData, d \in BotDeltas :
         LET t == b_now + d
             field == IF data = "toggle_short" THEN "auto_short" ELSE "auto_mirror"
             r == db_toggle(b_settings, u, field)
         IN  /\ b_now' = t
             /\ b_n' = b_n + 1
             /\ IF data = "owner_bcast"
                THEN /\ b_ratelimit' =
                          IF u = OWNER_ID
                          THEN ratelimit_update(b_ratelimit, OWNER_ID, 0 - 1)
                          ELSE b_ratelimit
                     /\ b_asked' = (b_asked \/ u = OWNER_ID)
                     /\ b_last' = [NoLast EXCEPT !.u = u, !.kind = data, !.t = t,
                                    !.handler = "cb_owner_bcast"]
                     /\ UNCHANGED b_settings
                ELSE /\ b_settings' = r.settings
                     /\ b_last' = [NoLast EXCEPT !.u = u, !.kind = data, !.t = t,
                                    !.handler = IF data = "toggle_short"
                                                THEN "cb_tshort" ELSE "cb_tmirror",
                                    !.before = db_get_settings(b_settings, u)[field],
                                    !.announced = r.val,
                                    !.shown = db_get_settings(r.settings, u)[field]]
                     /\ UNCHANGED <<b_ratelimit, b_asked>>
    /\ UNCHANGED <<b_users, b_menu, b_passed>>
    /\ UNCHANGED not_bvars

BNext == bot_message \/ bot_callback

(***************************************************************************)
(* The bots: the handlers of the running program, the resolver at rest.    *)
(***************************************************************************)
TNext ==
    \E h \in Handlers :
        \/ handle_terabox(h)
        \/ handle_terabox_cancel(h)
        \/ cb_mirror(h)
        \/ cb_mirror_cancel(h)

Init == TInit /\ ROff /\ GOff /\ LInit /\ SOff /\ DOff /\ BOff

Spec == Init /\ [][TNext]_vars

(***************************************************************************)
(* src/app/bot.py with every task left to run (no cancellation) and        *)
(* scheduled fairly: the event loop resumes every task whose await has     *)
(* completed, and every response, chunk or error of a transfer arrives.    *)
(* The run starts with the clock at its last modelled reading.             *)
(***************************************************************************)
LastTime == MaxSec * MsPerSec + MaxMs

FairInit ==
    /\ prog = "app"
    /\ pc = [h \in Handlers |-> "new"]
    /\ tmp = [h \in Handlers |-> NoPath]
    /\ written = [h \in Handlers |-> 0]
    /\ how = [h \in Handlers |-> "none"]
    /\ files = {}
    /\ now = LastTime
    /\ dl_semaphore = [value |-> MAX_CONCURRENT, waiters |-> <<>>, done |-> {}]
    /\ events = << >>
    /\ acq = 0
    /\ rel = 0
    /\ last = NoEvent
    /\ ROff
    /\ GOff
    /\ LInit
    /\ SOff
    /\ DOff
    /\ BOff

FairNext == \E h \in Handlers : handle_terabox(h)

FairSpec ==
    /\ FairInit
    /\ [][FairNext]_vars
    /\ \A h \in Handlers : WF_vars(handle_terabox(h))

(***************************************************************************)
(* One call of resolve_terabox against an upstream that answers in any way *)
(* the model draws; no handler runs.                                       *)
(***************************************************************************)
TOff ==
    /\ prog = "off"
    /\ pc = [h \in Handlers |-> "new"]
    /\ tmp = [h \in Handlers |-> NoPath]
    /\ written = [h \in Handlers |-> 0]
    /\ how = [h \in Handlers |-> "none"]
    /\ files = {}
    /\ now = 0
    /\ dl_semaphore = [value |-> MAX_CONCURRENT, waiters |-> <<>>, done |-> {}]
    /\ events = << >>
    /\ acq = 0
    /\ rel = 0
    /\ last = NoEvent

ResolveInit == TOff /\ RInit /\ GOff /\ LInit /\ SOff /\ DOff /\ BOff

SpecResolve == ResolveInit /\ [][resolve_terabox]_vars

(***************************************************************************)
(* One decision of one size gate, for the sizes and ceilings drawn.        *)
(***************************************************************************)
GateInit == TOff /\ ROff /\ GInit /\ LInit /\ SOff /\ DOff /\ BOff

SpecGate == GateInit /\ [][GNext]_vars

(***************************************************************************)
(* The rate limiter alone, over several windows.                           *)
(***************************************************************************)
LimiterInit == TOff /\ ROff /\ GOff /\ LInit /\ SOff /\ DOff /\ BOff

SpecLimiter == LimiterInit /\ [][rate_limiter_check]_vars

(***************************************************************************)
(* One transfer in detail, from the GET to the end of its handler.         *)
(***************************************************************************)
StreamInit == TOff /\ ROff /\ GOff /\ LInit /\ SInit /\ DOff /\ BOff

SpecStream == StreamInit /\ [][SNext]_vars

(***************************************************************************)
(* The domain checks on one string.                                        *)
(***************************************************************************)
DomainInit == TOff /\ ROff /\ GOff /\ LInit /\ SOff /\ DInit /\ BOff

SpecDomain == DomainInit /\ [][DNext]_vars

(***************************************************************************)
(* The bot of src/bot.py on a new database.                                *)
(***************************************************************************)
BotInit == TOff /\ ROff /\ GOff /\ LInit /\ SOff /\ DOff /\ BInit

SpecBot == BotInit /\ [][BNext]_vars

(***************************************************************************)
(* Properties.                                                             *)
(***************************************************************************)
\* tasks executing stream_download: from the GET being sent until the guarded
\* block is left
Streaming == {h \in Handlers : pc[h] \in {"opening", "streaming"}}

\* waiters whose future has no result yet
Queued == {h \in Handlers : pc[h] = "waiting" /\ h \notin dl_semaphore.done}

\* C1: in src/app/bot.py at most MAX_CONCURRENT stream_download executions are
\* in progress at any instant, and while a task waits for a slot all
\* MAX_CONCURRENT slots are taken by tasks that stream or were just handed a
\* slot, so the extra task starts only after a release.
C1_AtMostMaxConcurrent ==
    prog = "app" =>
        /\ Cardinality(Streaming) <= MAX_CONCURRENT
        /\ Queued # {} =>
             /\ dl_semaphore.value = 0
             /\ Cardinality(Streaming) + Cardinality(dl_semaphore.done) = MAX_CONCURRENT

\* C1 witness: MAX_CONCURRENT tasks stream while one more waits for a slot
C1_Witness ==
    /\ prog = "app"
    /\ Cardinality(Streaming) = MAX_CONCURRENT
    /\ Queued # {}

\* C2: the semaphore value stays within 0..MAX_CONCURRENT, every completed
\* acquisition is matched by exactly one release once its transfer has ended
\* (however it ended), and with no transfer in flight the value is back to
\* MAX_CONCURRENT with as many releases as acquisitions.
C2_ReleasedOncePerAcquisition ==
    prog = "app" =>
        /\ dl_semaphore.value \in 0..MAX_CONCURRENT
        /\ acq - rel = Cardinality(Streaming)
        /\ dl_semaphore.value
             = MAX_CONCURRENT - (acq - rel) - Cardinality(dl_semaphore.done)
        /\ (\A h \in Handlers : pc[h] \notin {"waiting", "opening", "streaming"})
             => rel = acq /\ dl_semaphore.value = MAX_CONCURRENT

\* C2 witness: every task has ended, MAX_CONCURRENT + 1 transfers took a slot
\* and the last one failed in the middle of its stream
C2_Witness ==
    /\ prog = "app"
    /\ \A h \in Handlers : pc[h] = "ended"
    /\ acq = MAX_CONCURRENT + 1
    /\ rel = acq
    /\ last.why = "io_error_partial"

\* C3: a task that asks for a slot while none is free suspends instead of
\* opening its download, and every task that waits for a slot eventually
\* gets one and opens its download.
C3_WaitersGetSlot ==
    /\ [][\A h \in Handlers :
            (pc[h] = "starting" /\ locked(dl_semaphore)) => pc'[h] # "opening"]_vars
    /\ \A h \in Handlers : (pc[h] = "waiting") ~> (pc[h] = "opening")

\* C3 witness: a task that had to queue has been resumed with a slot
C3_Witness == \E h \in Handlers : pc[h] = "opening" /\ how[h] = "queued"

\* C4: the number of cb_mirror downloads streaming at the same instant is
\* bounded by the size of the transfer pool.
C4_MirrorBoundedByPool ==
    prog = "bot" => Cardinality(Streaming) <= MAX_CONCURRENT

\* C5: when a handler that has chosen its temp path ends, no file exists at
\* that path.
C5_TempFileGoneAtReturn ==
    (last.st \in {"done", "raised"} /\ last.path # NoPath) => last.path \notin files

\* tasks that have opened their temp file and not yet reached their cleanup
FileInUse == {h \in Handlers : pc[h] \in {"streaming", "pre_upload", "uploading"}}

\* C6: transfers in flight never share a temp path, so the file a transfer is
\* writing or sending is never removed by another transfer's cleanup.
C6_NoSharedTempFile ==
    /\ \A h \in FileInUse : tmp[h] \in files
    /\ \A g, h \in FileInUse : g # h => tmp[g] # tmp[h]

\* C7: resolve_terabox never raises: every call that has ended has returned a
\* ResolveResult, and a result with ok=False carries a non-empty error.
C7_NeverRaises ==
    /\ rpc # "raised"
    /\ exc = "none"
    /\ (rpc = "returned" /\ ~result.ok) => Truthy(result.error)

\* C8: a returned result with ok=True carries a non-empty dlink or
\* direct_link, and its error is populated exactly when ok=False.
C8_OkHasLinkErrorIffNotOk ==
    rpc = "returned" =>
        /\ result.ok => (Truthy(result.direct_link) \/ Truthy(result.dlink))
        /\ Truthy(result.error) <=> ~result.ok
        /\ (result.error # None) <=> ~result.ok

\* C8 witness: the first listed file has no dlink and the call returned
\* ok=False with the no-link error
C8_Witness ==
    /\ rpc = "returned"
    /\ listing.t = "obj"
    /\ ~Truthy(Get(listing, "errno"))
    /\ Get(listing, "list").t = "list"
    /\ Get(listing, "list").xs # << >>
    /\ Get(listing, "list").xs[1].t = "obj"
    /\ ~Truthy(Get(Get(listing, "list").xs[1], "dlink"))
    /\ ~result.ok
    /\ result.error = JStr(NoLink)

\* C9: once the page fetch has answered with a status other than 200, the
\* call has returned ok=False with the HTTP-status error and the page request
\* is the only request it ever sent.
C9_Non200StopsResolution ==
    (page.net = "response" /\ page.status # 200) =>
        /\ rpc = "returned"
        /\ ~result.ok
        /\ result.error = JStr(HttpError(page.status))
        /\ reqs = <<"page">>

\* C9 witness: the page answered 204 and the call returned after one request
C9_Witness ==
    /\ page.net = "response"
    /\ page.status = 204
    /\ rpc = "returned"
    /\ reqs = <<"page">>

\* the share/list body is an object with a numeric errno other than 0
NonZeroErrno ==
    /\ listing.t = "obj"
    /\ Get(listing, "errno").t = "num"
    /\ Get(listing, "errno").n # 0

\* C10: once the listing has answered with a non-zero errno, the call has
\* returned ok=False with the API error, without dlink or direct_link, and no
\* probe was sent, whatever the rest of the body holds.
C10_ErrnoStopsResolution ==
    NonZeroErrno =>
        /\ rpc = "returned"
        /\ ~result.ok
        /\ result.error = JStr(ApiError(Get(listing, "errno")))
        /\ result.dlink = None
        /\ result.direct_link = None
        /\ reqs = <<"page", "list">>

\* C10 witness: a negative errno beside a listed file with a dlink
C10_Witness ==
    /\ NonZeroErrno
    /\ Get(listing, "errno").n < 0
    /\ Get(listing, "list").t = "list"
    /\ Get(listing, "list").xs # << >>
    /\ Get(listing, "list").xs[1].t = "obj"
    /\ Truthy(Get(Get(listing, "list").xs[1], "dlink"))
    /\ rpc = "returned"

\* the first entry of the share/list body's list
FirstItem == Get(listing, "list").xs[1]

\* the share/list body is an object without an error number whose list starts
\* with an object that has a dlink
ListedWithDlink ==
    /\ listing.t = "obj"
    /\ ~Truthy(Get(listing, "errno"))
    /\ Get(listing, "list").t = "list"
    /\ Get(listing, "list").xs # << >>
    /\ FirstItem.t = "obj"
    /\ Truthy(Get(FirstItem, "dlink"))

\* C11: when the listing gives a first item with a dlink and the server of
\* that dlink answers a HEAD with a Location header X, the call returns
\* ok=True with direct_link = X and dlink the listed dlink.
C11_LocationBecomesDirectLink ==
    ( /\ rpc = "returned"
      /\ ListedWithDlink
      /\ Get(FirstItem, "dlink").t = "str"
      /\ probe_answer.net = "response"
      /\ Truthy(probe_answer.location) )
    => /\ result.ok
       /\ result.direct_link = probe_answer.location
       /\ result.dlink = Get(FirstItem, "dlink")

\* C12: when the listing gives a first item with a dlink, the call returns
\* ok=True whatever the probe does, and when the probe fails or is answered
\* without a Location header direct_link is the dlink.
C12_ProbeFailureFallsBack ==
    (rpc = "returned" /\ ListedWithDlink) =>
        /\ result.ok
        /\ result.dlink = Get(FirstItem, "dlink")
        /\ (probe_answer.net = "error" \/ ~Truthy(probe_answer.location))
             => result.direct_link = result.dlink

\* C12 witness: the probe was sent and failed, and the call returned ok=True
\* with the dlink as direct_link
C12_Witness ==
    /\ rpc = "returned"
    /\ ListedWithDlink
    /\ reqs = <<"page", "list", "probe">>
    /\ probe_answer.net = "error"
    /\ result.ok
    /\ result.direct_link = result.dlink

\* C13: a size gate rejects a file exactly when its size is known (above 0)
\* and strictly above the ceiling; a missing or zero size proceeds under every
\* ceiling, and so does a size equal to the ceiling.
C13_RejectIffKnownAndAbove ==
    verdict # "none" =>
        LET n == IF fsize = None THEN 0 ELSE fsize.n
            b == CeilingBytes(gate, ceiling)
        IN  /\ verdict = "reject" <=> (n > 0 /\ n > b)
            /\ n = 0 => verdict = "proceed"
            /\ n = b => verdict = "proceed"

\* C13 witness: handle_terabox lets a file of exactly MAX_FILE_MB MiB proceed
C13_Witness ==
    /\ gate = "handle_terabox"
    /\ ceiling = MAX_FILE_MB
    /\ fsize = JNum(MAX_FILE_MB * MiB)
    /\ verdict = "proceed"

\* C14: a task that ends because its size gate rejected the file has taken no
\* slot, chosen and created no temp file, opened no GET and uploaded nothing
\* (it ends from the step of the size check, before any step of a transfer),
\* and once its reply is sent the user has the direct link.
C14_RejectedMeansNoTransfer ==
    /\ [][\A h \in Handlers :
            (last'.h = h /\ last'.why = "too_large" /\ pc[h] # "ended") =>
                /\ pc[h] \in {"new", "fetching"}
                /\ tmp[h] = NoPath
                /\ last'.path = NoPath
                /\ files' = files
                /\ acq' = acq
                /\ dl_semaphore' = dl_semaphore]_vars
    /\ [](last.why = "too_large" /\ (last.st = "done" \/ prog = "bot") => last.link)

\* C14 witness: handle_terabox has answered a too large file with the reply
\* that carries the link, while no file exists and no slot is taken
C14_Witness ==
    /\ prog = "app"
    /\ last.why = "too_large"
    /\ last.st = "done"
    /\ last.link
    /\ files = {}
    /\ acq = 0

\* the accepted calls of the user of call i made before it and less than one
\* window before it
CountedBefore(i) ==
    {j \in 1..(i - 1) : /\ lim_log[j].u = lim_log[i].u
                        /\ lim_log[j].ok
                        /\ lim_log[i].t - lim_log[j].t < window}

\* the verdicts check gives the calls of user u when no other user calls
RECURSIVE AloneFrom(_, _, _)
AloneFrom(u, i, ev) ==
    IF i > Len(lim_log) THEN << >>
    ELSE IF lim_log[i].u # u THEN AloneFrom(u, i + 1, ev)
    ELSE LET r == check(ev, u, lim_log[i].t)
         IN  <<r.ok>> \o AloneFrom(u, i + 1, r.events)

\* the verdicts the calls of user u got
RECURSIVE VerdictsFrom(_, _)
VerdictsFrom(u, i) ==
    IF i > Len(lim_log) THEN << >>
    ELSE IF lim_log[i].u # u THEN VerdictsFrom(u, i + 1)
    ELSE <<lim_log[i].ok>> \o VerdictsFrom(u, i + 1)

\* C15: a call is accepted exactly when fewer than USER_RATE_LIMIT accepted
\* calls of the same user lie less than one window before it, so no span
\* shorter than the window holds more than USER_RATE_LIMIT accepted calls of
\* one user; and each user gets the verdicts it would get calling alone.
C15_AtMostLimitPerWindow ==
    /\ \A i \in 1..Len(lim_log) :
          /\ lim_log[i].ok <=> Cardinality(CountedBefore(i)) < USER_RATE_LIMIT
          /\ lim_log[i].ok => Cardinality(CountedBefore(i)) + 1 <= USER_RATE_LIMIT
    /\ \A u \in LimUsers : VerdictsFrom(u, 1) = AloneFrom(u, 1, << >>)

\* C15 witness: user U is refused after USER_RATE_LIMIT accepted calls while
\* user V, calling in between, is accepted
C15_Witness ==
    \E i, j \in 1..Len(lim_log) :
        /\ i < j
        /\ lim_log[i].u = "V" /\ lim_log[i].ok
        /\ lim_log[j].u = "U" /\ ~lim_log[j].ok
        /\ Cardinality(CountedBefore(j)) = USER_RATE_LIMIT

\* C16: the wait of a refused call lies in 0..window and is the time left
\* until the oldest accepted call still counted against the user is one
\* window old.
C16_WaitIsTimeToOldest ==
    \A i \in 1..Len(lim_log) :
        ~lim_log[i].ok =>
            /\ 0 <= lim_log[i].wait
            /\ lim_log[i].wait <= window
            /\ \E j \in CountedBefore(i) :
                  /\ \A k \in CountedBefore(i) : lim_log[j].t <= lim_log[k].t
                  /\ lim_log[i].wait = lim_log[j].t + window - lim_log[i].t

\* C16 witness: a refused call whose counted calls were made at different
\* times
C16_Witness ==
    \E i \in 1..Len(lim_log) :
        /\ ~lim_log[i].ok
        /\ \E j, k \in CountedBefore(i) : lim_log[j].t < lim_log[k].t
        /\ lim_log[i].wait < window

\* C17: a call made when every accepted call of its user is at least one
\* window old is accepted, whatever was refused in between.
C17_AcceptedAgainAfterWindow ==
    \A i \in 1..Len(lim_log) :
        (\A j \in 1..(i - 1) :
            (lim_log[j].u = lim_log[i].u /\ lim_log[j].ok)
                => lim_log[i].t - lim_log[j].t >= window)
        => lim_log[i].ok

\* C17 witness: a user refused once is accepted one window after the accepted
\* calls
C17_Witness ==
    \E i, j \in 1..Len(lim_log) :
        /\ j < i
        /\ lim_log[j].u = lim_log[i].u
        /\ ~lim_log[j].ok
        /\ lim_log[i].ok
        /\ CountedBefore(i) = {}

\* C18: when the source is exhausted after N bytes, however they were cut
\* into chunks, the temp file holds exactly those N bytes in order, and
\* (no progress edit having failed) the last progress shown to the user has
\* the byte count N.
C18_AllBytesWrittenAndReported ==
    (s_exhausted /\ s_file.exists /\ ~s_edit_failed /\ Len(s_sent) > 0) =>
        /\ s_file.data = s_sent
        /\ s_downloaded = Len(s_sent)
        /\ s_reported = Len(s_sent)

C20_Non2xxFailsTransfer ==
    (s_status # 0 /\ ~(200 <= s_status /\ s_status <= 299)) =>
        /\ ~s_created
        /\ s_downloaded = 0
        /\ ~s_uploaded.tried
        /\ s_pc \in {"err_edit", "ended"}
        /\ s_pc = "ended" => s_error = "http_status"

\* the throttle interval of the transfer's program, in half seconds
Throttle == IF s_prog = "app" THEN AppThrottle ELSE MirrorThrottle

\* C21: any two consecutive progress edits of one transfer are at least the
\* throttle interval apart (2.0 s in stream_download, 1.5 s in cb_mirror),
\* and a chunk that arrives less than the interval after the last edit
\* produces no edit.
C21_EditsThrottled ==
    /\ [](\A i \in 1..Len(s_edit_times) - 1 :
            s_edit_times[i + 1] - s_edit_times[i] >= Throttle)
    /\ [][(s_edit_times # << >>
           /\ s_now' - s_edit_times[Len(s_edit_times)] < Throttle)
          => s_edit_times' = s_edit_times]_vars

\* C21 witness: three chunks of one byte; the first and the third produced
\* an edit, the second, arriving too early, none
C21_Witness ==
    /\ s_chunks = 3
    /\ s_downloaded = 3
    /\ Len(s_edit_times) = 2

\* C22: a failed progress or status edit during a transfer is not fatal: the
\* step in which a progress edit fails leaves the transfer streaming, and
\* after the "Uploading" edit, failed or not, the upload follows.
C22_EditFailureNonFatal ==
    [][/\ (s_pc = "streaming" /\ ~s_edit_failed /\ s_edit_failed')
            => s_pc' = "streaming"
       /\ s_pc = "pre_upload" => s_pc' = "uploading"]_vars

\* C23: handle_terabox never ends by letting an exception out: whatever
\* fails, each of its runs ends by returning.
C23_HandlerNeverRaises ==
    prog = "app" => last.st # "raised"

\* no domain of the list occurs in s, whatever the case of s
NoDomainIn(s, list) == \A d \in list : ~Contains(lower(s), d)

\* C24: for a string that contains none of the allow-listed domains, the
\* domain check of each bot (is_allowed_domain, is_terabox_url) answers
\* false and does not raise.
C24_NoDomainMeansFalse ==
    /\ (d_app \notin {"off", "none"} /\ NoDomainIn(d_url, ALLOWED_DOMAINS))
          => d_app = "false"
    /\ (d_bot \notin {"off", "none"} /\ NoDomainIn(d_url, TERABOX_PATTERNS))
          => d_bot = "false"

\* the host component of the string: what follows the user information in
\* the netloc, the empty string when there is no netloc
HostOf(url) ==
    LET netloc == urlparse(url).netloc
        ats    == {i \in 1..Len(netloc) : netloc[i] = "@"}
    IN  IF urlparse(url).raised THEN << >>
        ELSE IF ats = {} THEN netloc
        ELSE SubSeq(netloc, (CHOOSE i \in ats : \A j \in ats : j <= i) + 1, Len(netloc))

\* C25: each domain check accepts a string only if its host component
\* contains an allow-listed domain, compared without regard to case; so a
\* domain in the path or query alone is rejected, and a host that is an
\* allow-listed domain in upper case is accepted.
C25_AcceptsByHostOnly ==
    /\ d_app = "true" => ~NoDomainIn(HostOf(d_url), ALLOWED_DOMAINS)
    /\ d_bot = "true" => ~NoDomainIn(HostOf(d_url), TERABOX_PATTERNS)
    /\ (d_app \notin {"off", "none"} /\ lower(HostOf(d_url)) \in ALLOWED_DOMAINS)
          => d_app = "true"
    /\ (d_bot \notin {"off", "none"} /\ lower(HostOf(d_url)) \in TERABOX_PATTERNS)
          => d_bot = "true"

\* a step that handles one message of user u
MessageOf(u) == b_n' = b_n + 1 /\ b_last'.u = u /\ b_last'.kind \in MessageKinds

\* C26: for a user other than the owner, two link messages let through by
\* db_should_limit are at least RATE_LIMIT_S seconds apart; a refused message
\* leaves the table ratelimit unchanged, and a link message RATE_LIMIT_S
\* seconds or more after the last one let through is let through; the owner
\* is never limited.
C26_CooldownBetweenAccepted ==
    /\ [][\A u \in BotUsers \ {OWNER_ID} :
            (b_passed[u] # 0 - 1 /\ b_passed'[u] # b_passed[u])
                => b_passed'[u] - b_passed[u] >= 2 * RATE_LIMIT_S]_vars
    /\ [][b_last'.limited => b_ratelimit' = b_ratelimit]_vars
    /\ [][\A u \in BotUsers \ {OWNER_ID} :
            (/\ MessageOf(u)
             /\ b_last'.handler = "on_links"
             /\ b_passed[u] # 0 - 1
             /\ b_now' - b_passed[u] >= 2 * RATE_LIMIT_S) => ~b_last'.limited]_vars
    /\ [](b_last.u = OWNER_ID => ~b_last.limited)

\* C27: on a new database, after the owner pressed Broadcast, the owner's
\* next text message is taken as the broadcast and sent to every user of the
\* table users, and an owner message with no broadcast asked is not
\* broadcast.
C27_NextOwnerMessageIsBroadcast ==
    [][(MessageOf(OWNER_ID) /\ b_last'.kind \in {"text", "link"})
         => /\ b_asked => (b_last'.broadcast /\ b_last'.recipients = b_users)
            /\ ~b_asked => ~b_last'.broadcast]_vars

\* C28: an owner message that is not taken as a broadcast goes on to the
\* handlers registered after on_owner_msg: one with a link is handled by
\* on_links, other text by on_any.
C28_OwnerMessageFallsThrough ==
    (b_last.u = OWNER_ID /\ ~b_last.broadcast) =>
        /\ b_last.kind = "link" => b_last.handler = "on_links"
        /\ b_last.kind = "text" => b_last.handler = "on_any"

\* a step that handles a press of the toggle handled by h for user u
ToggleOf(u, h) == b_n' = b_n + 1 /\ b_last'.u = u /\ b_last'.handler = h

\* C29: the value db_toggle returns, which the bot announces, is the value
\* db_get_settings returns right after it, also for a user with no settings
\* row; two toggles of the same field in a row restore the value.
C29_ToggleAgreesWithSettings ==
    /\ [](b_last.handler \in {"cb_tshort", "cb_tmirror"}
            => b_last.announced = b_last.shown)
    /\ [][\A u \in BotUsers, h \in {"cb_tshort", "cb_tmirror"} :
            (b_last.u = u /\ b_last.handler = h /\ ToggleOf(u, h))
                => b_last'.shown = b_last.before]_vars

\* the list RateLimiter.events holds for user u, empty when it has none
EventsOf(ev, u) == IF u \in DOMAIN ev THEN ev[u] ELSE << >>

\* C30: a refused check records nothing: the caller's list is its old list
\* without the expired timestamps, and an accepted check appends the time of
\* the call to that list, once; in both cases every other user's list is
\* unchanged.
C30_RefusedCallRecordsNothing ==
    [][LET call == lim_log'[Len(lim_log')]
           old  == EventsOf(lim_events, call.u)
           kept == SelectSeq(old, LAMBDA x : call.t - x < window)
       IN  /\ call.t = lim_now'
           /\ DOMAIN lim_events' = DOMAIN lim_events \cup {call.u}
           /\ \A v \in DOMAIN lim_events \ {call.u} : lim_events'[v] = lim_events[v]
           /\ ~call.ok => lim_events'[call.u] = kept
           /\ call.ok => lim_events'[call.u] = Append(kept, call.t)]_vars

\* C30 witness: user U has just been refused while user V has a timestamp
\* recorded
C30_Witness ==
    /\ lim_log # << >>
    /\ lim_log[Len(lim_log)].u = "U"
    /\ ~lim_log[Len(lim_log)].ok
    /\ EventsOf(lim_events, "V") # << >>
    /\ Len(EventsOf(lim_events, "U")) = USER_RATE_LIMIT

====
